---------------------------- MODULE Spec2Model ----------------------------
(***************************************************************************)
(* A model of the Freshservice Terraform provider: the shared HTTP helper  *)
(* (NewConfig, Config.NewRequest, Config.DoRequest), the CRUD handlers of *)
(* the five resource kinds, the two data sources and the provider's        *)
(* resource map (Spec); and the helper functions applied on their own      *)
(* over bounded inputs (HelperSpec).                                       *)
(*                                                                         *)
(* Strings the code transforms (identifiers, type_fields keys and values)  *)
(* are sequences of one-character strings, so that formatting and parsing  *)
(* are computed, not assumed.  Attribute and JSON field names, which the   *)
(* code only uses as fixed map keys, are plain strings.                    *)
(***************************************************************************)
EXTENDS Integers, Sequences, FiniteSets, TLC

VARIABLES
    kind,      \* the resource (or data source) kind the host is driving
    cfg,       \* the user's configuration of the instance
    d,         \* schema.ResourceData as the last handler left it: [id, attrs]
    vendor,    \* the vendor's store: [assets, next]
    lastOp,    \* the last handler invocation: operation, wire answer, diagnostics, d.Id() before
    createReq, \* what the last successful Create sent (history)
    fresh,     \* TRUE while nothing but honestly answered Reads has happened since that Create
    dispatch,  \* the host's lookup of the kind's resource type in the provider's ResourcesMap
    meta,      \* the *Config configureProvider returned, handed to every handler as meta
    call       \* the helper function last applied on its own: [fn, in, out]

vars == <<kind, cfg, d, vendor, lastOp, createReq, fresh, dispatch, meta, call>>

-----------------------------------------------------------------------------
(* Bounds of the model *)

\* display IDs (and asset-type IDs of the AssetType kind) the vendor hands out: 1..MaxDisplayID
MaxDisplayID == 1

-----------------------------------------------------------------------------
(* Strings and numbers *)

Digits == <<"0", "1", "2", "3", "4", "5", "6", "7", "8", "9">>

DigitChar(n) == Digits[n + 1]

IsDigit(c) == \E i \in 1..10 : Digits[i] = c

DigitVal(c) == (CHOOSE i \in 1..10 : Digits[i] = c) - 1

RECURSIVE NatStr(_)
NatStr(n) == IF n < 10 THEN <<DigitChar(n)>> ELSE NatStr(n \div 10) \o <<DigitChar(n % 10)>>

\* strconv.Itoa, and fmt's %d
Itoa(n) == IF n < 0 THEN <<"-">> \o NatStr(-n) ELSE NatStr(n)

RECURSIVE DigitsVal(_)
DigitsVal(s) == IF s = <<>> THEN 0 ELSE 10 * DigitsVal(SubSeq(s, 1, Len(s) - 1)) + DigitVal(s[Len(s)])

AllDigits(s) == s # <<>> /\ \A i \in 1..Len(s) : IsDigit(s[i])

HasSign(s) == s # <<>> /\ s[1] \in {"+", "-"}

Unsigned(s) == IF HasSign(s) THEN Tail(s) ELSE s

\* strconv.Atoi: an optional sign, then one or more decimal digits
AtoiOk(s) == AllDigits(Unsigned(s))

AtoiVal(s) == IF HasSign(s) /\ s[1] = "-" THEN -DigitsVal(Unsigned(s)) ELSE DigitsVal(Unsigned(s))

\* strings.HasSuffix and strings.TrimSuffix
HasSuffix(s, suf) == Len(s) >= Len(suf) /\ SubSeq(s, Len(s) - Len(suf) + 1, Len(s)) = suf

\* a TrimSuffix that removes the suffix as often as it ends the string
RECURSIVE TrimSuffixRepeatedly(_, _)
TrimSuffixRepeatedly(s, suf) ==
    IF suf # <<>> /\ HasSuffix(s, suf) THEN TrimSuffixRepeatedly(SubSeq(s, 1, Len(s) - Len(suf)), suf) ELSE s

TrimSuffix(s, suf) == IF HasSuffix(s, suf) THEN SubSeq(s, 1, Len(s) - Len(suf)) ELSE s

-----------------------------------------------------------------------------
(* JSON values of the untyped type_fields map (map[string]interface{}) *)

JStr(s) == [t |-> "str", s |-> s]

\* a JSON number: m * 10^e, m without trailing zeros (what float64 holds of a short decimal)
JNum(m, e) == [t |-> "num", m |-> m, e |-> e]

JBool(b) == [t |-> "bool", b |-> b]

\* math.Inf and math.NaN, which ParseFloat yields and encoding/json refuses to encode
JNonFinite == [t |-> "nonfinite"]

RECURSIVE Normalize(_, _)
Normalize(m, e) ==
    IF m = 0 THEN JNum(0, 0)
    ELSE IF m % 10 = 0 THEN Normalize(m \div 10, e + 1)
    ELSE JNum(m, e)

Lower(c) ==
    CASE c = "I" -> "i" [] c = "N" -> "n" [] c = "F" -> "f" [] c = "A" -> "a"
      [] c = "T" -> "t" [] c = "Y" -> "y" [] OTHER -> c

LowerStr(s) == [i \in 1..Len(s) |-> Lower(s[i])]

Str_inf == <<"i", "n", "f">>

Str_infinity == <<"i", "n", "f", "i", "n", "i", "t", "y">>

Str_nan == <<"n", "a", "n">>

\* strconv's special(): [sign] inf | [sign] infinity | nan, in any letter case
IsSpecialFloat(s) ==
    \/ LowerStr(Unsigned(s)) \in {Str_inf, Str_infinity}
    \/ LowerStr(s) = Str_nan

\* the index of the first element of s that is in cs, or 0
FirstIndex(s, cs) ==
    IF \E i \in 1..Len(s) : s[i] \in cs
    THEN CHOOSE i \in 1..Len(s) : s[i] \in cs /\ \A j \in 1..(i - 1) : s[j] \notin cs
    ELSE 0

Mantissa(s) ==
    LET u == Unsigned(s)
        k == FirstIndex(u, {"e", "E"})
    IN  IF k = 0 THEN u ELSE SubSeq(u, 1, k - 1)

Exponent(s) ==
    LET u == Unsigned(s)
        k == FirstIndex(u, {"e", "E"})
    IN  IF k = 0 THEN <<"0">> ELSE SubSeq(u, k + 1, Len(u))

IntPart(mant) ==
    LET k == FirstIndex(mant, {"."})
    IN  IF k = 0 THEN mant ELSE SubSeq(mant, 1, k - 1)

FracPart(mant) ==
    LET k == FirstIndex(mant, {"."})
    IN  IF k = 0 THEN <<>> ELSE SubSeq(mant, k + 1, Len(mant))

\* strconv.ParseFloat on decimal input: [sign] digits [. digits] [e [sign] digits], at least
\* one mantissa digit (hexadecimal floats and underscores are outside the modelled alphabet)
DecimalFloatOk(s) ==
    LET mant == Mantissa(s)
        ip == IntPart(mant)
        fp == FracPart(mant)
    IN  /\ ip \o fp # <<>>
        /\ \A i \in 1..Len(ip) : IsDigit(ip[i])
        /\ \A i \in 1..Len(fp) : IsDigit(fp[i])
        /\ AtoiOk(Exponent(s))

ParseFloatOk(s) == IsSpecialFloat(s) \/ DecimalFloatOk(s)

ParseFloatVal(s) ==
    IF IsSpecialFloat(s) THEN JNonFinite
    ELSE LET mant == Mantissa(s)
             fp == FracPart(mant)
             m == DigitsVal(IntPart(mant) \o fp)
         IN  Normalize(IF HasSign(s) /\ s[1] = "-" THEN -m ELSE m, AtoiVal(Exponent(s)) - Len(fp))

Str_true == <<"t", "r", "u", "e">>

Str_false == <<"f", "a", "l", "s", "e">>

BoolTrueStrings ==
    {<<"1">>, <<"t">>, <<"T">>, <<"T", "R", "U", "E">>, Str_true, <<"T", "r", "u", "e">>}

BoolFalseStrings ==
    {<<"0">>, <<"f">>, <<"F">>, <<"F", "A", "L", "S", "E">>, Str_false, <<"F", "a", "l", "s", "e">>}

\* strconv.ParseBool
ParseBoolOk(s) == s \in BoolTrueStrings \cup BoolFalseStrings

\* convertTypeFieldValue trying the boolean first
convertTypeFieldValueBoolFirst(value) ==
    IF ParseBoolOk(value) THEN JBool(value \in BoolTrueStrings)
    ELSE IF AtoiOk(value) THEN Normalize(AtoiVal(value), 0)
    ELSE IF ParseFloatOk(value) THEN ParseFloatVal(value)
    ELSE JStr(value)

\* convertTypeFieldValue: integer, else float, else boolean, else the string itself
convertTypeFieldValue(value) ==
    IF AtoiOk(value) THEN Normalize(AtoiVal(value), 0)
    ELSE IF ParseFloatOk(value) THEN ParseFloatVal(value)
    ELSE IF ParseBoolOk(value) THEN JBool(value \in BoolTrueStrings)
    ELSE JStr(value)

Zeros(n) == [i \in 1..n |-> "0"]

\* strconv's %e tail: e, the exponent's sign, at least two digits
ExpSuffix(x) ==
    <<"e", IF x < 0 THEN "-" ELSE "+">>
        \o (IF (IF x < 0 THEN -x ELSE x) < 10 THEN <<"0">> ELSE <<>>)
        \o NatStr(IF x < 0 THEN -x ELSE x)

\* fmt's %v of a float64: %g with the shortest digits, %e when the exponent is < -4 or >= 6
FormatFloatV(n) ==
    LET neg == n.m < 0
        ds == NatStr(IF neg THEN -n.m ELSE n.m)
        nd == Len(ds)
        dp == nd + n.e
        x == dp - 1
        body ==
            IF n.m = 0 THEN <<"0">>
            ELSE IF x < -4 \/ x >= 6
                 THEN <<ds[1]>> \o (IF nd > 1 THEN <<".">> \o SubSeq(ds, 2, nd) ELSE <<>>) \o ExpSuffix(x)
            ELSE IF dp <= 0 THEN <<"0", ".">> \o Zeros(-dp) \o ds
            ELSE IF n.e >= 0 THEN ds \o Zeros(n.e)
            ELSE SubSeq(ds, 1, dp) \o <<".">> \o SubSeq(ds, dp + 1, nd)
    IN  (IF neg THEN <<"-">> ELSE <<>>) \o body

Str_nil == <<"<", "n", "i", "l", ">">>

\* fmt.Sprintf("%v", value) of a decoded JSON value
SprintV(v) ==
    CASE v.t = "str" -> v.s
      [] v.t = "num" -> FormatFloatV(v)
      [] v.t = "bool" -> IF v.b THEN Str_true ELSE Str_false
      [] OTHER -> Str_nil

-----------------------------------------------------------------------------
(* The resource kinds and their schemas *)

AssetKinds == {"Asset", "AzureSubscription", "AWSAccount", "GCPProject"}

Kinds == AssetKinds \cup {"AssetType"}

DataSourceAsset == "DataSourceAsset"

\* nil and non-nil pointers (*int, *string, a nil or non-nil map)
Nil == {}

Ptr(x) == {x}

Deref(p) == CHOOSE x \in p : TRUE

EmptyMap == [k \in {} |-> <<>>]

\* the attribute that carries the asset's name
NameAttr(k) ==
    CASE k = "AzureSubscription" -> "subscription_name"
      [] k = "AWSAccount" -> "account_name"
      [] k = "GCPProject" -> "project_name"
      [] OTHER -> "name"

\* the cloud kinds' schema attributes that are written into type_fields, with the logical key of each
WriteFields(k) ==
    CASE k = "GCPProject" ->
           { <<"project_id", <<"p", "r", "o", "j", "e", "c", "t", "_", "i", "d">>>>, <<"project_name", <<"p", "r", "o", "j", "e", "c", "t", "_", "n", "a", "m", "e">>>>,
             <<"po_number", <<"p", "o">>>>, <<"owner", <<"o", "w", "n", "e", "r">>>>, <<"approver", <<"a", "p", "p", "r", "o", "v", "e", "d", "_", "b", "y">>>>,
             <<"environment", <<"e", "n", "v", "i", "r", "o", "n", "m", "e", "n", "t">>>>, <<"active", <<"a", "c", "t", "i", "v", "e">>>> }
      [] k = "AzureSubscription" ->
           { <<"tenant_id", <<"t", "e", "n", "a", "n", "t", "_", "i", "d">>>>, <<"subscription_id", <<"s", "u", "b", "s", "c", "r", "i", "p", "t", "i", "o", "n", "_", "i", "d">>>>,
             <<"po_number", <<"p", "o">>>>, <<"owner", <<"o", "w", "n", "e", "r">>>>, <<"approver", <<"a", "p", "p", "r", "o", "v", "e", "r", "_", "o", "b", "j", "e", "c", "t">>>>,
             <<"environment", <<"e", "n", "v", "i", "r", "o", "n", "m", "e", "n", "t">>>>, <<"eacsp", <<"e", "a", "c", "s", "p">>>>, <<"active", <<"a", "c", "t", "i", "v", "e">>>>,
             <<"cloudockit", <<"c", "l", "o", "u", "d", "o", "c", "k", "i", "t">>>> }
      [] k = "AWSAccount" ->
           { <<"account_id", <<"a", "c", "c", "o", "u", "n", "t", "_", "i", "d">>>>, <<"po_number", <<"p", "o">>>>, <<"owner", <<"o", "w", "n", "e", "r">>>>,
             <<"approver", <<"a", "p", "p", "r", "o", "v", "e", "d", "_", "b", "y">>>>, <<"environment", <<"e", "n", "v", "i", "r", "o", "n", "m", "e", "n", "t">>>> }
      [] OTHER -> {}

\* the attributes set<Kind>AssetData reads back out of type_fields (the GCP project's name is not)
ReadFields(k) == {f \in WriteFields(k) : ~(k = "GCPProject" /\ f[1] = "project_name")}

\* attributes of the generic Asset that setAssetData sets unconditionally from the response
AssetDirectAttrs ==
    { "name", "description", "asset_type_id", "impact", "usage_type", "display_id", "asset_tag",
      "author_type", "created_at", "updated_at", "workspace_id", "created_by_source",
      "last_updated_by_source", "sources", "serial_number", "mac_addresses", "ip_addresses",
      "uuid", "item_id", "imei_number" }

\* attributes of the generic Asset that setAssetData sets only from a non-nil pointer
AssetNullableAttrs ==
    { "user_id", "location_id", "department_id", "agent_id", "group_id", "assigned_on",
      "created_by_user", "last_updated_by_user" }

\* attributes of a cloud kind that set<Kind>AssetData sets unconditionally
CloudDirectAttrs(k) ==
    { NameAttr(k), "description", "asset_type_id", "display_id", "asset_tag", "created_at",
      "updated_at", "workspace_id" }

AssetTypeDirectAttrs == {"name", "description", "visible", "created_at", "updated_at"}

TimeAttrs == {"created_at", "updated_at"}

IntAttrs ==
    { "asset_type_id", "display_id", "workspace_id", "user_id", "location_id", "department_id",
      "agent_id", "group_id", "created_by_user", "last_updated_by_user", "parent_asset_type_id" }

\* every attribute of a kind's schema, the host identifier "id" apart
SchemaAttrs(k) ==
    CASE k = "Asset" -> AssetDirectAttrs \cup AssetNullableAttrs \cup {"type_fields"}
      [] k = "AssetType" -> AssetTypeDirectAttrs \cup {"parent_asset_type_id"}
      [] OTHER -> CloudDirectAttrs(k) \cup {f[1] : f \in WriteFields(k)}

\* the attributes a configuration can set (Required or Optional)
ConfigAttrs(k) ==
    CASE k = "Asset" ->
           { "name", "description", "asset_type_id", "impact", "usage_type", "user_id",
             "location_id", "department_id", "agent_id", "group_id", "type_fields" }
      [] k = "AssetType" -> {"name", "description", "parent_asset_type_id", "visible"}
      [] OTHER -> {NameAttr(k), "description", "asset_type_id"} \cup {f[1] : f \in WriteFields(k)}

\* the schema's ForceNew flag: only the generic Asset's asset_type_id carries it
ForceNew(k, a) == k = "Asset" /\ a = "asset_type_id"

\* the zero value d.Get returns for an attribute that was never set
ZeroOf(a) ==
    IF a \in IntAttrs THEN 0
    ELSE IF a = "visible" THEN FALSE
    ELSE IF a = "type_fields" THEN EmptyMap
    ELSE IF a \in {"description", "impact", "usage_type", "asset_tag", "author_type",
                   "assigned_on", "created_at", "updated_at", "created_by_source",
                   "last_updated_by_source", "serial_number", "uuid", "item_id", "imei_number"}
         THEN ""
    ELSE <<>>

ZeroAttrs(k) == [a \in SchemaAttrs(k) |-> ZeroOf(a)]

\* time.Time.Format(time.RFC3339) of a decoded instant; 0 is the zero time.Time
FormatRFC3339(t) == IF t = 0 THEN "0001-01-01T00:00:00Z" ELSE "2024-01-01T00:00:00Z"

\* fmt.Sprintf("%s_%d", key, assetTypeID)
FieldKey(key, assetTypeID) == key \o <<"_">> \o Itoa(assetTypeID)

-----------------------------------------------------------------------------
(* The wire: what http.Client.Do hands back for a request *)

\* a response body that json.Decode rejects (empty, or not JSON)
Undecodable == [ok |-> FALSE]

\* a response body that decodes; obj is the object under "asset" / "asset_type" / "assets"
JsonBody(obj) == [ok |-> TRUE, obj |-> obj]

TransportFailure == [err |-> TRUE, status |-> 0, body |-> Undecodable]

Answer(status, body) == [err |-> FALSE, status |-> status, body |-> body]

\* the error DoRequest makes of a failure of Client.Do: "failed to execute request: ..."
ExecuteError == [resp |-> Nil, err |-> TRUE, text |-> <<"failed to execute request">>]

\* fmt.Errorf("API request failed with status %d: %s", resp.StatusCode, resp.Status)
StatusError(status) ==
    [resp |-> Nil, err |-> TRUE, text |-> <<"API request failed with status">> \o Itoa(status)]

\* the response handed back with a nil error
Passed(w) == [resp |-> Ptr(w), err |-> FALSE, text |-> <<>>]

\* DoRequest with its two status tests in the other order
DoRequestMisordered(w) ==
    IF w.err THEN ExecuteError
    ELSE IF w.status >= 400 THEN StatusError(w.status)
    ELSE Passed(w)

\* DoRequest handing back every response the wire gave, whatever its status
DoRequestUnchecked(w) ==
    IF w.err THEN ExecuteError
    ELSE Passed(w)

\* Config.DoRequest: the response and the error it returns for a wire answer
DoRequest(w) ==
    IF w.err THEN ExecuteError
    ELSE IF w.status = 404 THEN Passed(w)
    ELSE IF w.status >= 400 THEN StatusError(w.status)
    ELSE Passed(w)

\* strings.Contains(s, c) for a one-character c
Contains(s, c) == \E i \in 1..Len(s) : s[i] = c

Str_freshservice ==
    <<".", "f", "r", "e", "s", "h", "s", "e", "r", "v", "i", "c", "e", ".", "c", "o", "m">>

Str_https == <<"h", "t", "t", "p", "s", ":", "/", "/">>

Str_apiv2 == <<"/", "a", "p", "i", "/", "v", "2">>

\* NewConfig appending the vendor's domain whatever the domain given
NewConfigAlwaysAppend(apiKey, domain) ==
    IF apiKey = <<>> THEN [config |-> Nil, err |-> TRUE]
    ELSE IF domain = <<>> THEN [config |-> Nil, err |-> TRUE]
    ELSE [ config |-> Ptr([APIKey |-> apiKey, Domain |-> domain \o Str_freshservice,
                           BaseURL |-> Str_https \o domain \o Str_freshservice \o Str_apiv2]),
           err |-> FALSE ]

\* NewConfig: the *Config (nil on error) and the error
NewConfig(apiKey, domain) ==
    IF apiKey = <<>> THEN [config |-> Nil, err |-> TRUE]
    ELSE IF domain = <<>> THEN [config |-> Nil, err |-> TRUE]
    ELSE LET dom == IF ~HasSuffix(domain, Str_freshservice)
                    THEN (IF ~Contains(domain, ".") THEN domain \o Str_freshservice ELSE domain)
                    ELSE domain
         IN  [ config |-> Ptr([APIKey |-> apiKey, Domain |-> dom,
                               BaseURL |-> Str_https \o dom \o Str_apiv2]),
               err |-> FALSE ]

\* NewRequest without its req.SetBasicAuth call
NewRequestAnonymous(method, coll, id, body) ==
    [ method |-> method, coll |-> coll, id |-> id, body |-> body,
      base |-> meta.BaseURL, user |-> <<>>, pass |-> "",
      header |-> [ContentType |-> "application/json", Accept |-> "application/json"] ]

\* the headers NewRequest sets
JsonHeaders == [ContentType |-> "application/json", Accept |-> "application/json"]

\* Config.NewRequest on the provider's Config: method and BaseURL+endpoint (the endpoint is
\* a collection and, for the per-item endpoints, the identifier formatted into it), Basic
\* authentication with the API key and "X", the JSON headers
NewRequest(method, coll, id, body) ==
    [ method |-> method, coll |-> coll, id |-> id, body |-> body,
      base |-> meta.BaseURL, user |-> meta.APIKey, pass |-> "X", header |-> JsonHeaders ]

NoBody == [f \in {} |-> 0]

-----------------------------------------------------------------------------
(* The vendor: a store of assets (or asset types) answering the REST calls *)

\* the Asset struct decoded from {} : every field its zero value
ZeroAsset ==
    [ id |-> 0, display_id |-> 0, name |-> <<>>, description |-> "", asset_type_id |-> 0,
      impact |-> "", author_type |-> "", usage_type |-> "", asset_tag |-> "",
      user_id |-> Nil, location_id |-> Nil, department_id |-> Nil, agent_id |-> Nil,
      group_id |-> Nil, assigned_on |-> Nil, created_at |-> 0, updated_at |-> 0,
      workspace_id |-> 0, created_by_source |-> "", last_updated_by_source |-> "",
      created_by_user |-> Nil, last_updated_by_user |-> Nil, sources |-> <<>>,
      serial_number |-> "", mac_addresses |-> <<>>, ip_addresses |-> <<>>, uuid |-> "",
      item_id |-> "", imei_number |-> "", type_fields |-> Nil ]

\* the AssetType struct decoded from {}
ZeroAssetType ==
    [ id |-> 0, name |-> <<>>, parent_asset_type_id |-> Nil, description |-> "",
      visible |-> FALSE, created_at |-> 0, updated_at |-> 0 ]

ZeroObject(k) == IF k = "AssetType" THEN ZeroAssetType ELSE ZeroAsset

\* what a request body leaves unsaid, the vendor fills in
Given(body, f, default) == IF f \in DOMAIN body THEN body[f] ELSE default

GivenPtr(body, f) == IF f \in DOMAIN body THEN Ptr(body[f]) ELSE Nil

\* the asset the vendor stores for POST /assets: the fields sent, its own identifiers and defaults
NewAsset(body, display, internal) ==
    [ ZeroAsset EXCEPT
        !.id = internal, !.display_id = display,
        !.name = Given(body, "name", <<>>),
        !.description = Given(body, "description", ""),
        !.asset_type_id = Given(body, "asset_type_id", 0),
        !.impact = Given(body, "impact", "low"),
        !.usage_type = Given(body, "usage_type", "permanent"),
        !.user_id = GivenPtr(body, "user_id"),
        !.location_id = GivenPtr(body, "location_id"),
        !.department_id = GivenPtr(body, "department_id"),
        !.agent_id = GivenPtr(body, "agent_id"),
        !.group_id = GivenPtr(body, "group_id"),
        !.type_fields = Given(body, "type_fields", Nil),
        !.author_type = "User", !.asset_tag = "ASSET-TAG", !.created_at = 1, !.updated_at = 1,
        !.workspace_id = 2, !.created_by_source = "API", !.last_updated_by_source = "API",
        !.created_by_user = Ptr(9), !.last_updated_by_user = Ptr(9), !.sources = <<"API">> ]

\* the asset type the vendor stores for POST /asset_types; custom types are visible by default
NewAssetType(body, id) ==
    [ ZeroAssetType EXCEPT
        !.id = id,
        !.name = Given(body, "name", <<>>),
        !.description = Given(body, "description", ""),
        !.parent_asset_type_id = GivenPtr(body, "parent_asset_type_id"),
        !.visible = Given(body, "visible", TRUE),
        !.created_at = 1, !.updated_at = 1 ]

\* two maps merged, the second one's entries winning
MergeMaps(old, new) ==
    [key \in DOMAIN old \cup DOMAIN new |-> IF key \in DOMAIN new THEN new[key] ELSE old[key]]

\* PUT: the stored object with every field the body carries replaced by the body's value
\* (a type_fields map sent is merged key by key, a null one changes nothing)
Merged(a, body) ==
    [ f \in DOMAIN a |->
        IF f \notin DOMAIN body THEN a[f]
        ELSE IF f = "type_fields"
             THEN IF body[f] = Nil THEN a[f]
                  ELSE IF a[f] = Nil THEN body[f]
                  ELSE Ptr(MergeMaps(Deref(a[f]), Deref(body[f])))
        ELSE IF f \in {"user_id", "location_id", "department_id", "agent_id", "group_id",
                       "parent_asset_type_id"}
             THEN Ptr(body[f])
        ELSE body[f] ]

\* the number by which the vendor's per-item endpoints address an object
KeyOf(k, a) == IF k = "AssetType" THEN a.id ELSE a.display_id

\* the stored objects a per-item endpoint /<collection>/<id> addresses
Found(k, v, id) == {a \in v.assets : Itoa(KeyOf(k, a)) = id}

\* the bodies an error answer may carry: nothing decodable, or an error object (decoding to zero values)
ErrorBodies(k) == {Undecodable, JsonBody(ZeroObject(k))}

\* the internal id the vendor gives the asset with a display ID: a number of its own
InternalID(display) == display + MaxDisplayID

\* the vendor's own answers to a request, each with the store it leaves: <<answer, store>>
Honest(k, v, req) ==
    CASE req.method = "POST" ->
           IF k = "AssetType"
           THEN LET a == NewAssetType(req.body, v.next)
                IN  {<<Answer(201, JsonBody(a)), [assets |-> v.assets \cup {a}, next |-> v.next + 1]>>}
           ELSE LET a == NewAsset(req.body, v.next, InternalID(v.next))
                IN  {<<Answer(201, JsonBody(a)), [assets |-> v.assets \cup {a}, next |-> v.next + 1]>>}
      [] req.method = "GET" ->
           IF Found(k, v, req.id) = {}
           THEN {<<Answer(404, b), v>> : b \in ErrorBodies(k)}
           ELSE {<<Answer(200, JsonBody(a)), v>> : a \in Found(k, v, req.id)}
      [] req.method = "PUT" ->
           IF Found(k, v, req.id) = {}
           THEN {<<Answer(404, b), v>> : b \in ErrorBodies(k)}
           ELSE { <<Answer(200, JsonBody(Merged(a, req.body))),
                    [v EXCEPT !.assets = (@ \ {a}) \cup {Merged(a, req.body)}]>>
                  : a \in Found(k, v, req.id) }
      [] OTHER ->
           IF Found(k, v, req.id) = {}
           THEN {<<Answer(404, b), v>> : b \in ErrorBodies(k)}
           ELSE {<<Answer(204, Undecodable), [v EXCEPT !.assets = @ \ {a}]>> : a \in Found(k, v, req.id)}

\* statuses of answers that are not the store's own (a proxy or cache, an outage)
FaultStatuses == {304, 500}

\* answers that are not the store's own; the store is left as it was
Faulty(k, v) ==
    {<<TransportFailure, v>>} \cup {<<Answer(s, Undecodable), v>> : s \in FaultStatuses}

-----------------------------------------------------------------------------
(* Writing a decoded response into schema.ResourceData *)

\* what a handler returns: the identifier and attributes it leaves in d, and its diagnostics
Ok(id, attrs) == [id |-> id, attrs |-> attrs, diag |-> "ok"]

Failed(dd) == [id |-> dd.id, attrs |-> dd.attrs, diag |-> "error"]

\* the value d.Set stores for an attribute set unconditionally from the same-named JSON field
DirectValue(k, a, obj) ==
    IF a \in TimeAttrs THEN FormatRFC3339(obj[a])
    ELSE IF a = NameAttr(k) THEN obj.name
    ELSE obj[a]

\* the maps setAssetData can build from a response's type_fields: each key loses a trailing
\* _<asset_type_id>, each value is rendered with %v; when two keys clean to the same key the
\* entry that survives depends on Go's map iteration order
StrippedTypeFields(tf, assetTypeID) ==
    LET suffix == <<"_">> \o Itoa(assetTypeID)
        keys == {TrimSuffix(key, suffix) : key \in DOMAIN tf}
    IN  { m \in [keys -> {SprintV(tf[key]) : key \in DOMAIN tf}] :
            \A c \in keys : \E key \in DOMAIN tf : TrimSuffix(key, suffix) = c /\ m[c] = SprintV(tf[key]) }

\* setAssetData: the attribute values it can leave in d
setAssetData(attrs, asset) ==
    { [ a \in DOMAIN attrs |->
          IF a \in AssetDirectAttrs THEN DirectValue("Asset", a, asset)
          ELSE IF a \in AssetNullableAttrs THEN (IF asset[a] # Nil THEN Deref(asset[a]) ELSE attrs[a])
          ELSE tfm ]
      : tfm \in (IF asset.type_fields = Nil THEN {attrs.type_fields}
                 ELSE StrippedTypeFields(Deref(asset.type_fields), asset.asset_type_id)) }

\* the logical key under which a cloud kind keeps an attribute in type_fields
LogicalKey(k, a) == (CHOOSE f \in WriteFields(k) : f[1] = a)[2]

\* the string type_fields holds under name_<assetTypeID>, when there is one (the .(string) assertion)
StringField(asset, key) ==
    IF asset.type_fields # Nil /\ key \in DOMAIN Deref(asset.type_fields)
          /\ Deref(asset.type_fields)[key].t = "str"
    THEN Ptr(Deref(asset.type_fields)[key].s)
    ELSE Nil

\* set<Kind>AssetData of the three cloud kinds
setCloudAssetData(k, attrs, asset) ==
    [ a \in DOMAIN attrs |->
        IF a \in CloudDirectAttrs(k) THEN DirectValue(k, a, asset)
        ELSE LET s == StringField(asset, FieldKey(LogicalKey(k, a), asset.asset_type_id))
             IN  IF s # Nil THEN Deref(s) ELSE attrs[a] ]

setAWSAccountAssetData(attrs, asset) == setCloudAssetData("AWSAccount", attrs, asset)

setAzureSubscriptionAssetData(attrs, asset) == setCloudAssetData("AzureSubscription", attrs, asset)

setGCPProjectAssetData(attrs, asset) == setCloudAssetData("GCPProject", attrs, asset)

\* setAssetTypeData
setAssetTypeData(attrs, assetType) ==
    [ a \in DOMAIN attrs |->
        IF a \in AssetTypeDirectAttrs THEN DirectValue("AssetType", a, assetType)
        ELSE IF assetType[a] # Nil THEN Deref(assetType[a]) ELSE attrs[a] ]

-----------------------------------------------------------------------------
(* Building the request bodies (the struct, then json.Marshal with its omitempty tags) *)

\* a record restricted to the fields json.Marshal keeps
Keep(body, fields) == [f \in fields |-> body[f]]

\* the request could not be marshalled: the handler returns before any HTTP call
MarshalError == [method |-> "none", coll |-> "", id |-> <<>>, body |-> NoBody]

\* the generic Asset's type_fields as sent: key_<asset_type_id> -> the coerced value
AssetTypeFields(attrs) ==
    LET tf == attrs.type_fields
        id == attrs.asset_type_id
    IN  [ key \in {FieldKey(lk, id) : lk \in DOMAIN tf} |->
            convertTypeFieldValue(tf[CHOOSE lk \in DOMAIN tf : FieldKey(lk, id) = key]) ]

\* the AssetRequest both resourceAssetCreate and resourceAssetUpdate build from d
AssetRequestBody(attrs) ==
    LET all == [ name |-> attrs.name, description |-> attrs.description,
                 asset_type_id |-> attrs.asset_type_id, impact |-> attrs.impact,
                 usage_type |-> attrs.usage_type, user_id |-> attrs.user_id,
                 location_id |-> attrs.location_id, department_id |-> attrs.department_id,
                 agent_id |-> attrs.agent_id, group_id |-> attrs.group_id,
                 type_fields |-> Ptr(AssetTypeFields(attrs)) ]
    IN  Keep(all, {"name", "asset_type_id"}
                    \cup {f \in {"description", "impact", "usage_type"} : all[f] # ""}
                    \cup {f \in {"user_id", "location_id", "department_id", "agent_id", "group_id"} : all[f] # 0}
                    \cup {f \in {"type_fields"} : DOMAIN AssetTypeFields(attrs) # {}})

\* json.Marshal fails on a float that is not finite
Marshals(body) ==
    "type_fields" \notin DOMAIN body \/ body.type_fields = Nil
        \/ \A key \in DOMAIN Deref(body.type_fields) : Deref(body.type_fields)[key].t # "nonfinite"

\* the value a cloud kind's Create puts under an attribute's key: the string, except that
\* the AWS account_id is sent as an integer when strconv.Atoi accepts it
CloudFieldValue(k, a, s) ==
    IF k = "AWSAccount" /\ a = "account_id" /\ AtoiOk(s) THEN Normalize(AtoiVal(s), 0) ELSE JStr(s)

\* type_fields built from the attributes in as: name_<asset_type_id> -> value
CloudTypeFields(k, attrs, as) ==
    LET id == attrs.asset_type_id
    IN  [ key \in {FieldKey(LogicalKey(k, a), id) : a \in as} |->
            LET a == CHOOSE x \in as : FieldKey(LogicalKey(k, x), id) = key
            IN  CloudFieldValue(k, a, attrs[a]) ]

\* the request the cloud kinds' Create (and the AWS account's Update) build: name, type and
\* every non-empty field
CloudFullBody(k, attrs) ==
    LET all == [ name |-> attrs[NameAttr(k)], asset_type_id |-> attrs.asset_type_id,
                 description |-> attrs.description,
                 type_fields |-> Ptr(CloudTypeFields(k, attrs, {f[1] : f \in {g \in WriteFields(k) : attrs[g[1]] # <<>>}})) ]
    IN  Keep(all, {"name", "asset_type_id", "type_fields"} \cup {f \in {"description"} : all[f] # ""})

\* the request the Azure and GCP Update build from the changed attributes: Name and
\* AssetTypeID have no omitempty tag and are serialized even when left at their zero value
CloudChangedBody(k, dd) ==
    LET as == {f[1] : f \in WriteFields(k)} \cap dd.changed
        all == [ name |-> IF NameAttr(k) \in dd.changed THEN dd.attrs[NameAttr(k)] ELSE <<>>,
                 asset_type_id |-> 0,
                 description |-> IF "description" \in dd.changed THEN dd.attrs.description ELSE "",
                 type_fields |-> IF as # {} THEN Ptr([key \in DOMAIN CloudTypeFields(k, dd.attrs, as) |->
                                                        JStr(dd.attrs[CHOOSE a \in as :
                                                            FieldKey(LogicalKey(k, a), dd.attrs.asset_type_id) = key])])
                                 ELSE Nil ]
    IN  Keep(all, {"name", "asset_type_id", "type_fields"} \cup {f \in {"description"} : all[f] # ""})

\* the AssetTypeRequest of resourceAssetTypeCreate: name, description, parent (every tag omitempty)
AssetTypeCreateBody(attrs) ==
    LET all == [ name |-> attrs.name, description |-> attrs.description,
                 parent_asset_type_id |-> attrs.parent_asset_type_id ]
    IN  Keep(all, {f \in {"name"} : all[f] # <<>>} \cup {f \in {"description"} : all[f] # ""}
                    \cup {f \in {"parent_asset_type_id"} : all[f] # 0})

\* the AssetTypeRequest of resourceAssetTypeUpdate: the changed fields, then omitempty
AssetTypeUpdateBody(dd) ==
    LET all == [ name |-> dd.attrs.name, description |-> dd.attrs.description,
                 parent_asset_type_id |-> dd.attrs.parent_asset_type_id, visible |-> dd.attrs.visible ]
    IN  Keep(all, ({f \in {"name"} : all[f] # <<>>} \cup {f \in {"description"} : all[f] # ""}
                     \cup {f \in {"parent_asset_type_id"} : all[f] # 0} \cup {"visible"}) \cap dd.changed)

-----------------------------------------------------------------------------
(* The handlers.  <handler>Request(dd) is the request the handler builds from d      *)
(* (dd = [id, attrs, changed]: d.Id(), d.Get and d.HasChange); <handler>(dd, w) is   *)
(* what it does with the wire's answer w to that request.                            *)

Status(r) == Deref(r.resp).status

\* json.NewDecoder(resp.Body).Decode succeeded
Decodes(w) == w.body.ok

\* ---- generic Asset ----

resourceAssetCreateRequest(dd) ==
    IF Marshals(AssetRequestBody(dd.attrs))
    THEN NewRequest("POST", "/assets", <<>>, AssetRequestBody(dd.attrs))
    ELSE MarshalError

resourceAssetCreate(dd, w) ==
    IF DoRequest(w).err \/ ~Decodes(w) THEN {Failed(dd)}
    ELSE {Ok(Itoa(w.body.obj.display_id), attrs) : attrs \in setAssetData(dd.attrs, w.body.obj)}

resourceAssetReadRequest(dd) == NewRequest("GET", "/assets", dd.id, NoBody)

resourceAssetRead(dd, w) ==
    LET r == DoRequest(w)
    IN  IF r.err THEN {Failed(dd)}
        ELSE IF Status(r) = 404 THEN {Ok(<<>>, dd.attrs)}
        ELSE IF Status(r) < 200 \/ Status(r) >= 300 THEN {Failed(dd)}
        ELSE IF ~Decodes(w) THEN {Failed(dd)}
        ELSE {Ok(dd.id, attrs) : attrs \in setAssetData(dd.attrs, w.body.obj)}

resourceAssetUpdateRequest(dd) ==
    IF Marshals(AssetRequestBody(dd.attrs))
    THEN NewRequest("PUT", "/assets", dd.id, AssetRequestBody(dd.attrs))
    ELSE MarshalError

resourceAssetUpdate(dd, w) ==
    IF DoRequest(w).err \/ ~Decodes(w) THEN {Failed(dd)}
    ELSE {Ok(dd.id, attrs) : attrs \in setAssetData(dd.attrs, w.body.obj)}

resourceAssetDeleteRequest(dd) == NewRequest("DELETE", "/assets", dd.id, NoBody)

resourceAssetDelete(dd, w) ==
    LET r == DoRequest(w)
    IN  IF r.err THEN Failed(dd)
        ELSE IF Status(r) = 404 THEN Ok(<<>>, dd.attrs)
        ELSE IF Status(r) < 200 \/ Status(r) >= 300 THEN Failed(dd)
        ELSE Ok(<<>>, dd.attrs)

\* ---- Azure subscription ----

resourceAzureSubscriptionCreateRequest(dd) ==
    NewRequest("POST", "/assets", <<>>, CloudFullBody("AzureSubscription", dd.attrs))

resourceAzureSubscriptionCreate(dd, w) ==
    IF DoRequest(w).err \/ ~Decodes(w) THEN Failed(dd)
    ELSE Ok(Itoa(w.body.obj.display_id), setAzureSubscriptionAssetData(dd.attrs, w.body.obj))

resourceAzureSubscriptionReadRequest(dd) == NewRequest("GET", "/assets", dd.id, NoBody)

resourceAzureSubscriptionRead(dd, w) ==
    LET r == DoRequest(w)
    IN  IF r.err THEN Failed(dd)
        ELSE IF Status(r) = 404 THEN Ok(<<>>, dd.attrs)
        ELSE IF Status(r) < 200 \/ Status(r) >= 300 THEN Failed(dd)
        ELSE IF ~Decodes(w) THEN Failed(dd)
        ELSE Ok(dd.id, setAzureSubscriptionAssetData(dd.attrs, w.body.obj))

resourceAzureSubscriptionUpdateRequest(dd) ==
    NewRequest("PUT", "/assets", dd.id, CloudChangedBody("AzureSubscription", dd))

resourceAzureSubscriptionUpdate(dd, w) ==
    IF DoRequest(w).err \/ ~Decodes(w) THEN Failed(dd)
    ELSE Ok(dd.id, setAzureSubscriptionAssetData(dd.attrs, w.body.obj))

resourceAzureSubscriptionDeleteRequest(dd) == NewRequest("DELETE", "/assets", dd.id, NoBody)

resourceAzureSubscriptionDelete(dd, w) ==
    LET r == DoRequest(w)
    IN  IF r.err THEN Failed(dd)
        ELSE IF Status(r) = 404 THEN Ok(<<>>, dd.attrs)
        ELSE IF Status(r) < 200 \/ Status(r) >= 300 THEN Failed(dd)
        ELSE Ok(<<>>, dd.attrs)

\* ---- AWS account ----

\* resourceAWSAccountCreate setting the identifier before it decodes the response
resourceAWSAccountCreateEager(dd, w) ==
    IF DoRequest(w).err THEN Failed(dd)
    ELSE IF ~Decodes(w) THEN Failed([id |-> <<"0">>, attrs |-> dd.attrs])
    ELSE Ok(Itoa(w.body.obj.display_id), setAWSAccountAssetData(dd.attrs, w.body.obj))

resourceAWSAccountCreateRequest(dd) ==
    NewRequest("POST", "/assets", <<>>, CloudFullBody("AWSAccount", dd.attrs))

resourceAWSAccountCreate(dd, w) ==
    IF DoRequest(w).err \/ ~Decodes(w) THEN Failed(dd)
    ELSE Ok(Itoa(w.body.obj.display_id), setAWSAccountAssetData(dd.attrs, w.body.obj))

resourceAWSAccountReadRequest(dd) == NewRequest("GET", "/assets", dd.id, NoBody)

\* the 404 test sits in the err # nil branch, which DoRequest never takes with a response
resourceAWSAccountRead(dd, w) ==
    LET r == DoRequest(w)
    IN  IF r.err
        THEN IF r.resp # Nil /\ Status(r) = 404 THEN Ok(<<>>, dd.attrs) ELSE Failed(dd)
        ELSE IF ~Decodes(w) THEN Failed(dd)
        ELSE Ok(dd.id, setAWSAccountAssetData(dd.attrs, w.body.obj))

resourceAWSAccountUpdateRequest(dd) ==
    NewRequest("PUT", "/assets", dd.id, CloudFullBody("AWSAccount", dd.attrs))

resourceAWSAccountUpdate(dd, w) ==
    IF DoRequest(w).err \/ ~Decodes(w) THEN Failed(dd)
    ELSE Ok(dd.id, setAWSAccountAssetData(dd.attrs, w.body.obj))

resourceAWSAccountDeleteRequest(dd) == NewRequest("DELETE", "/assets", dd.id, NoBody)

resourceAWSAccountDelete(dd, w) ==
    LET r == DoRequest(w)
    IN  IF r.err
        THEN IF r.resp # Nil /\ Status(r) = 404 THEN Ok(dd.id, dd.attrs) ELSE Failed(dd)
        ELSE Ok(<<>>, dd.attrs)

\* ---- GCP project ----

resourceGCPProjectCreateRequest(dd) ==
    NewRequest("POST", "/assets", <<>>, CloudFullBody("GCPProject", dd.attrs))

\* the identifier is taken from the response's internal id
resourceGCPProjectCreate(dd, w) ==
    IF DoRequest(w).err \/ ~Decodes(w) THEN Failed(dd)
    ELSE Ok(Itoa(w.body.obj.id), setGCPProjectAssetData(dd.attrs, w.body.obj))

resourceGCPProjectReadRequest(dd) == NewRequest("GET", "/assets", dd.id, NoBody)

resourceGCPProjectRead(dd, w) ==
    LET r == DoRequest(w)
    IN  IF r.err
        THEN IF r.resp # Nil /\ Status(r) = 404 THEN Ok(<<>>, dd.attrs) ELSE Failed(dd)
        ELSE IF ~Decodes(w) THEN Failed(dd)
        ELSE Ok(dd.id, setGCPProjectAssetData(dd.attrs, w.body.obj))

resourceGCPProjectUpdateRequest(dd) ==
    NewRequest("PUT", "/assets", dd.id, CloudChangedBody("GCPProject", dd))

resourceGCPProjectUpdate(dd, w) ==
    IF DoRequest(w).err \/ ~Decodes(w) THEN Failed(dd)
    ELSE Ok(dd.id, setGCPProjectAssetData(dd.attrs, w.body.obj))

resourceGCPProjectDeleteRequest(dd) == NewRequest("DELETE", "/assets", dd.id, NoBody)

resourceGCPProjectDelete(dd, w) ==
    LET r == DoRequest(w)
    IN  IF r.err
        THEN IF r.resp # Nil /\ Status(r) = 404 THEN Ok(dd.id, dd.attrs) ELSE Failed(dd)
        ELSE Ok(<<>>, dd.attrs)

\* ---- asset type ----

resourceAssetTypeCreateRequest(dd) ==
    NewRequest("POST", "/asset_types", <<>>, AssetTypeCreateBody(dd.attrs))

resourceAssetTypeCreate(dd, w) ==
    IF DoRequest(w).err \/ ~Decodes(w) THEN Failed(dd)
    ELSE Ok(Itoa(w.body.obj.id), setAssetTypeData(dd.attrs, w.body.obj))

resourceAssetTypeReadRequest(dd) == NewRequest("GET", "/asset_types", dd.id, NoBody)

resourceAssetTypeRead(dd, w) ==
    LET r == DoRequest(w)
    IN  IF r.err
        THEN IF r.resp # Nil /\ Status(r) = 404 THEN Ok(<<>>, dd.attrs) ELSE Failed(dd)
        ELSE IF ~Decodes(w) THEN Failed(dd)
        ELSE Ok(dd.id, setAssetTypeData(dd.attrs, w.body.obj))

resourceAssetTypeUpdateRequest(dd) ==
    NewRequest("PUT", "/asset_types", dd.id, AssetTypeUpdateBody(dd))

resourceAssetTypeUpdate(dd, w) ==
    IF DoRequest(w).err \/ ~Decodes(w) THEN Failed(dd)
    ELSE Ok(dd.id, setAssetTypeData(dd.attrs, w.body.obj))

resourceAssetTypeDeleteRequest(dd) == NewRequest("DELETE", "/asset_types", dd.id, NoBody)

resourceAssetTypeDelete(dd, w) ==
    LET r == DoRequest(w)
    IN  IF r.err
        THEN IF r.resp # Nil /\ Status(r) = 404 THEN Ok(dd.id, dd.attrs) ELSE Failed(dd)
        ELSE Ok(<<>>, dd.attrs)

-----------------------------------------------------------------------------
(* The configurations the host may be given *)

\* asset-type IDs a configuration may name (the cloud kinds' asset_type_id is Optional with a
\* default beyond TLC's integers; the model exercises the attribute with small IDs)
AssetTypeIDs == {5, 6}

Names == {<<"A">>, <<"B">>}

AssetConfig(name, type, user, tf) ==
    [ name |-> name, description |-> "", asset_type_id |-> type, impact |-> "low",
      usage_type |-> "permanent", user_id |-> user, location_id |-> 0, department_id |-> 0,
      agent_id |-> 0, group_id |-> 0, type_fields |-> tf ]

\* type_fields a generic Asset may be configured with: one field "sn" holding text, digits
\* or the name of a float that is not finite
TypeFieldConfigs ==
    {[key \in {<<"s","n">>} |-> v] : v \in {<<"x","1">>, <<"0","0","7">>, <<"I","n","f">>}}

AWSAccountConfig(id, po, type) ==
    [ account_name |-> <<"A">>, account_id |-> id, po_number |-> po, owner |-> <<>>,
      approver |-> <<>>, environment |-> <<"P", "r", "o", "d">>, description |-> "", asset_type_id |-> type ]

AzureSubscriptionConfig(name, po, type) ==
    [ subscription_name |-> name, subscription_id |-> <<"s", "1">>, tenant_id |-> <<"t", "1">>,
      po_number |-> po, owner |-> <<>>, approver |-> <<>>, environment |-> <<>>,
      description |-> "", asset_type_id |-> type, eacsp |-> <<"C", "S", "P">>, active |-> <<"Y", "e", "s">>,
      cloudockit |-> <<"Y", "e", "s">> ]

GCPProjectConfig(name, po, type) ==
    [ project_name |-> name, project_id |-> <<"p", "1">>, po_number |-> po, owner |-> <<>>,
      approver |-> <<>>, environment |-> <<>>, description |-> "", asset_type_id |-> type,
      active |-> <<"Y", "e", "s">> ]

AssetTypeConfig(name, description, parent, visible) ==
    [ name |-> name, description |-> description, parent_asset_type_id |-> parent,
      visible |-> visible ]

Configs(k) ==
    CASE k = "Asset" ->
           {AssetConfig(<<"A">>, t, 3, tf) : t \in AssetTypeIDs, tf \in TypeFieldConfigs}
      [] k = "AWSAccount" ->
           {AWSAccountConfig(<<"0", "0", "7">>, <<"P">>, 5), AWSAccountConfig(<<"k", "1">>, <<"P">>, 6),
            AWSAccountConfig(<<"0", "0", "7">>, <<>>, 5)}
      [] k = "AzureSubscription" ->
           {AzureSubscriptionConfig(<<"A">>, <<"P">>, 5), AzureSubscriptionConfig(<<"A">>, <<"Q">>, 5),
            AzureSubscriptionConfig(<<"A">>, <<"P">>, 6)}
      [] k = "GCPProject" ->
           {GCPProjectConfig(<<"A">>, <<"P">>, 5), GCPProjectConfig(<<"B">>, <<"P">>, 5),
            GCPProjectConfig(<<"A">>, <<"P">>, 6)}
      [] OTHER ->
           {AssetTypeConfig(<<"A">>, "d", p, TRUE) : p \in {0, 1}}
             \cup {AssetTypeConfig(<<"B">>, "d", 0, TRUE), AssetTypeConfig(<<"A">>, "", 0, FALSE)}

-----------------------------------------------------------------------------
(* The provider's resource map and the documented resource types *)

\* Provider().ResourcesMap: resource type name -> the kind whose handlers serve it
ResourcesMap ==
    [ t \in {"freshservice_asset_type", "freshservice_azure_subscription", "freshservice_aws_account"} |->
        CASE t = "freshservice_asset_type" -> "AssetType"
          [] t = "freshservice_azure_subscription" -> "AzureSubscription"
          [] OTHER -> "AWSAccount" ]

\* the resource types the README, the docs index and docs/resources present
DocumentedResources ==
    { "freshservice_asset_type", "freshservice_azure_subscription", "freshservice_aws_account",
      "freshservice_gcp_project", "freshservice_asset" }

\* the resource type name under which the documentation presents a kind
TypeName(k) ==
    CASE k = "Asset" -> "freshservice_asset"
      [] k = "AzureSubscription" -> "freshservice_azure_subscription"
      [] k = "AWSAccount" -> "freshservice_aws_account"
      [] k = "GCPProject" -> "freshservice_gcp_project"
      [] OTHER -> "freshservice_asset_type"

\* the host resolving a resource type a configuration names against the provider's map
Resolve(t) == [type |-> t, found |-> t \in DOMAIN ResourcesMap]

-----------------------------------------------------------------------------
(* The host (Terraform core and the plugin SDK) driving the handlers *)

\* the request the kind's Create handler builds
CreateRequest(k, dd) ==
    CASE k = "Asset" -> resourceAssetCreateRequest(dd)
      [] k = "AzureSubscription" -> resourceAzureSubscriptionCreateRequest(dd)
      [] k = "AWSAccount" -> resourceAWSAccountCreateRequest(dd)
      [] k = "GCPProject" -> resourceGCPProjectCreateRequest(dd)
      [] OTHER -> resourceAssetTypeCreateRequest(dd)

\* the outcomes the kind's Create handler can return for the wire's answer
CreateHandle(k, dd, w) ==
    CASE k = "Asset" -> resourceAssetCreate(dd, w)
      [] k = "AzureSubscription" -> {resourceAzureSubscriptionCreate(dd, w)}
      [] k = "AWSAccount" -> {resourceAWSAccountCreate(dd, w)}
      [] k = "GCPProject" -> {resourceGCPProjectCreate(dd, w)}
      [] OTHER -> {resourceAssetTypeCreate(dd, w)}

\* the request the kind's Read handler builds
ReadRequest(k, dd) ==
    CASE k = "Asset" -> resourceAssetReadRequest(dd)
      [] k = "AzureSubscription" -> resourceAzureSubscriptionReadRequest(dd)
      [] k = "AWSAccount" -> resourceAWSAccountReadRequest(dd)
      [] k = "GCPProject" -> resourceGCPProjectReadRequest(dd)
      [] OTHER -> resourceAssetTypeReadRequest(dd)

\* the outcomes the kind's Read handler can return for the wire's answer
ReadHandle(k, dd, w) ==
    CASE k = "Asset" -> resourceAssetRead(dd, w)
      [] k = "AzureSubscription" -> {resourceAzureSubscriptionRead(dd, w)}
      [] k = "AWSAccount" -> {resourceAWSAccountRead(dd, w)}
      [] k = "GCPProject" -> {resourceGCPProjectRead(dd, w)}
      [] OTHER -> {resourceAssetTypeRead(dd, w)}

\* the request the kind's Update handler builds
UpdateRequest(k, dd) ==
    CASE k = "Asset" -> resourceAssetUpdateRequest(dd)
      [] k = "AzureSubscription" -> resourceAzureSubscriptionUpdateRequest(dd)
      [] k = "AWSAccount" -> resourceAWSAccountUpdateRequest(dd)
      [] k = "GCPProject" -> resourceGCPProjectUpdateRequest(dd)
      [] OTHER -> resourceAssetTypeUpdateRequest(dd)

\* the outcomes the kind's Update handler can return for the wire's answer
UpdateHandle(k, dd, w) ==
    CASE k = "Asset" -> resourceAssetUpdate(dd, w)
      [] k = "AzureSubscription" -> {resourceAzureSubscriptionUpdate(dd, w)}
      [] k = "AWSAccount" -> {resourceAWSAccountUpdate(dd, w)}
      [] k = "GCPProject" -> {resourceGCPProjectUpdate(dd, w)}
      [] OTHER -> {resourceAssetTypeUpdate(dd, w)}

\* the request the kind's Delete handler builds
DeleteRequest(k, dd) ==
    CASE k = "Asset" -> resourceAssetDeleteRequest(dd)
      [] k = "AzureSubscription" -> resourceAzureSubscriptionDeleteRequest(dd)
      [] k = "AWSAccount" -> resourceAWSAccountDeleteRequest(dd)
      [] k = "GCPProject" -> resourceGCPProjectDeleteRequest(dd)
      [] OTHER -> resourceAssetTypeDeleteRequest(dd)

\* the outcomes the kind's Delete handler can return for the wire's answer
DeleteHandle(k, dd, w) ==
    CASE k = "Asset" -> {resourceAssetDelete(dd, w)}
      [] k = "AzureSubscription" -> {resourceAzureSubscriptionDelete(dd, w)}
      [] k = "AWSAccount" -> {resourceAWSAccountDelete(dd, w)}
      [] k = "GCPProject" -> {resourceGCPProjectDelete(dd, w)}
      [] OTHER -> {resourceAssetTypeDelete(dd, w)}

\* the attributes whose configured value differs from the state's (the plan's diff)
Changed(k) == {a \in ConfigAttrs(k) : d.attrs[a] # cfg[a]}

\* d as the host hands it to Create: the planned values, everything computed still unset
CreateData(k) ==
    [ id |-> <<>>,
      attrs |-> [a \in SchemaAttrs(k) |-> IF a \in ConfigAttrs(k) THEN cfg[a] ELSE ZeroOf(a)],
      changed |-> ConfigAttrs(k) ]

\* d as the host hands it to Read and Delete: the prior state
StateData == [id |-> d.id, attrs |-> d.attrs, changed |-> {}]

\* d as the host hands it to Update: the prior state overlaid with the planned values
UpdateData(k) ==
    [ id |-> d.id,
      attrs |-> [a \in SchemaAttrs(k) |-> IF a \in ConfigAttrs(k) THEN cfg[a] ELSE d.attrs[a]],
      changed |-> Changed(k) ]

NoAnswer == [err |-> FALSE, status |-> 0, body |-> Undecodable]

\* lastOp while the last step was not a handler invocation
Idle ==
    [ op |-> "none", sent |-> FALSE, req |-> [method |-> "none"], body |-> NoBody, changed |-> {},
      typeKeys |-> {}, calls |-> 0, wrote |-> FALSE, wire |-> NoAnswer, diag |-> "ok", preId |-> <<>>,
      honest |-> TRUE, retry |-> FALSE ]

\* a request without its body: method, endpoint, authentication and headers
Envelope(req) == [f \in DOMAIN req \ {"body"} |-> req[f]]

\* the type_fields keys a request body carries
TypeKeys(body) ==
    IF "type_fields" \in DOMAIN body /\ body.type_fields # Nil THEN DOMAIN Deref(body.type_fields) ELSE {}

\* the answers the wire may give to a request: the vendor's own (hs) or a faulty one (fs);
\* a request that could not be built is never sent
Answers(req, hs, fs) ==
    IF req.method = "none"
    THEN {[sent |-> FALSE, wire |-> NoAnswer, store |-> vendor, honest |-> TRUE]}
    ELSE {[sent |-> TRUE, wire |-> h[1], store |-> h[2], honest |-> TRUE] : h \in hs}
           \cup {[sent |-> TRUE, wire |-> h[1], store |-> h[2], honest |-> FALSE] : h \in fs \ hs}

\* a handler that calls config.DoRequest again after a failed call
DoRequestCallsRetrying(req, w) ==
    IF req.method = "none" THEN 0 ELSE IF DoRequest(w).err THEN 2 ELSE 1

\* how many times one invocation calls config.DoRequest: a handler that returned before
\* building its request calls it never; every other handler calls it once and returns on
\* whatever it gets back
DoRequestCalls(req, w) == IF req.method = "none" THEN 0 ELSE 1

\* what one handler invocation leaves behind: r in d, the vendor's store, the history
Record(op, retry, dd, req, a, r) ==
    /\ d' = [id |-> r.id, attrs |-> r.attrs]
    /\ vendor' = a.store
    /\ lastOp' = [ op |-> op, sent |-> a.sent, req |-> Envelope(req), body |-> req.body,
                   changed |-> dd.changed, typeKeys |-> TypeKeys(req.body),
                   calls |-> DoRequestCalls(req, a.wire), wire |-> a.wire,
                   wrote |-> r.id # dd.id \/ r.attrs # dd.attrs,
                   diag |-> r.diag, preId |-> dd.id, honest |-> a.honest, retry |-> retry ]
    /\ createReq' = IF op = "Create" /\ r.diag = "ok"
                    THEN [asset_type_id |-> IF kind \in AssetKinds THEN dd.attrs.asset_type_id ELSE 0]
                    ELSE createReq
    /\ fresh' = IF op = "Create" THEN a.honest /\ r.diag = "ok" ELSE op = "Read" /\ fresh /\ a.honest
    /\ UNCHANGED <<kind, cfg, dispatch, meta, call>>

\* one handler invocation: the request is built, the wire answers it, the handler leaves its
\* outcome in d
CreateExchange(dd, req) ==
    \E a \in Answers(req, Honest(kind, vendor, req), Faulty(kind, vendor)) :
        \E r \in (IF a.sent THEN CreateHandle(kind, dd, a.wire) ELSE {Failed(dd)}) :
            Record("Create", FALSE, dd, req, a, r)

ReadExchange(dd, req) ==
    \E a \in Answers(req, Honest(kind, vendor, req), Faulty(kind, vendor)) :
        \E r \in (IF a.sent THEN ReadHandle(kind, dd, a.wire) ELSE {Failed(dd)}) :
            Record("Read", FALSE, dd, req, a, r)

UpdateExchange(dd, req) ==
    \E a \in Answers(req, Honest(kind, vendor, req), Faulty(kind, vendor)) :
        \E r \in (IF a.sent THEN UpdateHandle(kind, dd, a.wire) ELSE {Failed(dd)}) :
            Record("Update", FALSE, dd, req, a, r)

DeleteExchange(retry, dd, req) ==
    \E a \in Answers(req, Honest(kind, vendor, req), Faulty(kind, vendor)) :
        \E r \in (IF a.sent THEN DeleteHandle(kind, dd, a.wire) ELSE {Failed(dd)}) :
            Record("Delete", retry, dd, req, a, r)

HostCreate ==
    /\ kind \in Kinds
    /\ d.id = <<>>
    /\ vendor.next <= MaxDisplayID
    /\ CreateExchange(CreateData(kind), CreateRequest(kind, CreateData(kind)))

HostRead ==
    /\ kind \in Kinds
    /\ d.id # <<>>
    /\ ReadExchange(StateData, ReadRequest(kind, StateData))

\* the host plans an in-place Update only when something changed and nothing that changed is ForceNew
HostUpdate ==
    /\ kind \in Kinds
    /\ d.id # <<>>
    /\ Changed(kind) # {}
    /\ \A a \in Changed(kind) : ~ForceNew(kind, a)
    /\ UpdateExchange(UpdateData(kind), UpdateRequest(kind, UpdateData(kind)))

HostDelete ==
    /\ kind \in Kinds
    /\ d.id # <<>>
    /\ DeleteExchange(FALSE, StateData, DeleteRequest(kind, StateData))

\* d as the host hands it to a repeated Delete: the state it had before the first one
RetryData == [id |-> lastOp.preId, attrs |-> d.attrs, changed |-> {}]

\* the host repeats a Delete that succeeded, with the state it had before (the cleared
\* state was never saved)
HostRetryDelete ==
    /\ kind \in Kinds
    /\ lastOp.op = "Delete" /\ lastOp.diag = "ok" /\ ~lastOp.retry
    /\ DeleteExchange(TRUE, RetryData, DeleteRequest(kind, RetryData))

\* the user edits the configuration
ChangeConfig ==
    /\ kind \in Kinds
    /\ \E c \in Configs(kind) \ {cfg} : cfg' = c
    /\ fresh' = FALSE
    /\ lastOp' = Idle
    /\ UNCHANGED <<kind, d, vendor, createReq, dispatch, meta, call>>

\* ---- the vendor's data changing behind the provider's back ----
\* (the model follows one out-of-band change per created object, made while the object
\* is still as Create left it)

\* the custom fields whose value changes out of band: the generic Asset's "sn", the cloud
\* kinds' purchase-order field
DriftKeys == {FieldKey(f, t) : f \in {<<"s", "n">>, <<"p", "o">>}, t \in AssetTypeIDs}

Replace(a, b) == vendor' = [vendor EXCEPT !.assets = (@ \ {a}) \cup {b}]

Drift == fresh /\ fresh' = FALSE /\ lastOp' = Idle /\ UNCHANGED <<kind, cfg, d, createReq, dispatch, meta, call>>

\* an object is deleted
VendorDrop ==
    /\ kind \in Kinds
    /\ \E a \in vendor.assets : vendor' = [vendor EXCEPT !.assets = @ \ {a}]
    /\ Drift

\* an association is removed: the field becomes null
VendorNullify ==
    /\ kind \in Kinds
    /\ \E a \in vendor.assets :
          IF kind = "AssetType"
          THEN a.parent_asset_type_id # Nil /\ Replace(a, [a EXCEPT !.parent_asset_type_id = Nil])
          ELSE a.user_id # Nil /\ Replace(a, [a EXCEPT !.user_id = Nil])
    /\ Drift

\* a custom field's value is cleared: its type_fields entry disappears
VendorClearField ==
    /\ kind \in AssetKinds
    /\ \E a \in vendor.assets :
          /\ a.type_fields # Nil
          /\ \E key \in DOMAIN Deref(a.type_fields) \cap DriftKeys :
                Replace(a, [a EXCEPT !.type_fields =
                              Ptr([x \in DOMAIN Deref(a.type_fields) \ {key} |-> Deref(a.type_fields)[x]])])
    /\ Drift

\* a custom field's value becomes a number
VendorRetypeField ==
    /\ kind \in AssetKinds
    /\ \E a \in vendor.assets :
          /\ a.type_fields # Nil
          /\ \E key \in DOMAIN Deref(a.type_fields) \cap DriftKeys :
                /\ Deref(a.type_fields)[key] # Normalize(7, 0)
                /\ Replace(a, [a EXCEPT !.type_fields = Ptr([Deref(a.type_fields) EXCEPT ![key] = Normalize(7, 0)])])
    /\ Drift

-----------------------------------------------------------------------------
(* The data sources: the asset search (data "freshservice_asset") and the    *)
(* asset-type lookup (data "freshservice_asset_type")                        *)

\* Provider().DataSourcesMap: the registered data source types
DataSourcesMap == {"freshservice_asset", "freshservice_asset_type"}

DataSourceAssetType == "DataSourceAssetType"

DataSourceKinds == {DataSourceAsset, DataSourceAssetType}

\* the Computed attributes dataSourceAssetRead sets unconditionally
DataSourceDirectAttrs == (AssetDirectAttrs \cup {"id"})

\* the Computed attributes it sets only from a non-nil pointer
DataSourceNullableAttrs == AssetNullableAttrs \ {"group_id"}

\* the attributes of dataSourceAsset's schema that are Optional: a configuration may set them
DataSourceOptionalAttrs == {"name", "display_id", "asset_tag", "trashed"}

DataSourceAttrs == DataSourceDirectAttrs \cup DataSourceNullableAttrs \cup {"trashed"}

DataSourceZeroAttrs ==
    [ a \in DataSourceAttrs |->
        IF a = "id" THEN 0 ELSE IF a = "trashed" THEN FALSE ELSE IF a = "asset_tag" THEN <<>>
        ELSE ZeroOf(a) ]

\* the attributes of dataSourceAssetType's schema: id and name Optional, the rest Computed
DataSourceAssetTypeAttrs ==
    {"id", "name", "description", "parent_asset_type_id", "visible", "created_at", "updated_at"}

DataSourceAssetTypeZeroAttrs ==
    [a \in DataSourceAssetTypeAttrs |-> IF a = "id" THEN 0 ELSE ZeroOf(a)]

\* the objects the vendor may hold when a data source is read: 1..MaxStock
MaxStock == 3

\* assets named A and B in turn, the last one with a tag of its own
StockAsset(i) ==
    [ NewAsset([name |-> IF i % 2 = 1 THEN <<"A">> ELSE <<"B">>, asset_type_id |-> 5], i, i + MaxStock)
        EXCEPT !.asset_tag = IF i < MaxStock THEN <<"T">> ELSE <<"U">> ]

\* asset types named A and B in turn, so that a name may be listed more than once
StockAssetType(i) == NewAssetType([name |-> IF i % 2 = 1 THEN <<"A">> ELSE <<"B">>], i)

Stock(k) ==
    IF k = DataSourceAsset THEN {StockAsset(i) : i \in 1..MaxStock}
    ELSE {StockAssetType(i) : i \in 1..MaxStock}

\* the search blocks a configuration may hold; item_id is the criterion the documentation
\* lists and the schema declares Computed
SearchConfigs ==
    { [name |-> n, display_id |-> i, asset_tag |-> t, item_id |-> it, trashed |-> FALSE] :
        n \in {<<>>, <<"A">>, <<"B">>}, i \in 0..2, t \in {<<>>, <<"T">>}, it \in {<<>>, <<"I">>} }

\* the asset-type lookups a configuration may hold
LookupConfigs == {[id |-> i, name |-> n] : i \in 0..2, n \in {<<>>, <<"A">>, <<"a">>, <<"B">>}}

\* the sequences that list the elements of a set once each
Orderings(S) ==
    {s \in [1..Cardinality(S) -> S] : \A i, j \in 1..Cardinality(S) : s[i] = s[j] => i = j}

\* strings.ReplaceAll(value, "'", "\\'")
RECURSIVE escapeSearchValue(_)
escapeSearchValue(value) ==
    IF value = <<>> THEN <<>>
    ELSE (IF Head(value) = "'" THEN <<"\\", "'">> ELSE <<Head(value)>>) \o escapeSearchValue(Tail(value))

Str_name == <<"n", "a", "m", "e", ":">>

Str_display_id == <<"d", "i", "s", "p", "l", "a", "y", "_", "i", "d", ":">>

Str_asset_tag == <<"a", "s", "s", "e", "t", "_", "t", "a", "g", ":">>

Str_AND == <<" ", "A", "N", "D", " ">>

\* fmt.Sprintf("%s:'%s'", key, value) with the key's colon already in key
QuotedCriterion(key, value) == key \o <<"'">> \o value \o <<"'">>

\* the loop of buildSearchQuery that joins the parts: " AND " before every part but the first
RECURSIVE JoinAND(_)
JoinAND(queryParts) ==
    IF Len(queryParts) = 1 THEN queryParts[1]
    ELSE JoinAND(SubSeq(queryParts, 1, Len(queryParts) - 1)) \o Str_AND \o queryParts[Len(queryParts)]

\* queryParts[0] of an empty slice
IndexPanic == <<"panic: index out of range">>

\* buildSearchQuery without the calls of escapeSearchValue
buildSearchQueryUnescaped(name, displayID, assetTag) ==
    LET queryParts ==
            (IF name # <<>> THEN <<QuotedCriterion(Str_name, name)>> ELSE <<>>)
            \o (IF displayID # 0 THEN <<Str_display_id \o Itoa(displayID)>> ELSE <<>>)
            \o (IF assetTag # <<>> THEN <<QuotedCriterion(Str_asset_tag, assetTag)>> ELSE <<>>)
    IN  IF Len(queryParts) > 1 THEN <<"\"">> \o JoinAND(queryParts) \o <<"\"">>
        ELSE IF Len(queryParts) = 1 THEN <<"\"">> \o queryParts[1] \o <<"\"">>
        ELSE IndexPanic

\* buildSearchQuery
buildSearchQuery(name, displayID, assetTag) ==
    LET queryParts ==
            (IF name # <<>> THEN <<QuotedCriterion(Str_name, escapeSearchValue(name))>> ELSE <<>>)
            \o (IF displayID # 0 THEN <<Str_display_id \o Itoa(displayID)>> ELSE <<>>)
            \o (IF assetTag # <<>> THEN <<QuotedCriterion(Str_asset_tag, escapeSearchValue(assetTag))>> ELSE <<>>)
    IN  IF Len(queryParts) > 1 THEN <<"\"">> \o JoinAND(queryParts) \o <<"\"">>
        ELSE IF Len(queryParts) = 1 THEN <<"\"">> \o queryParts[1] \o <<"\"">>
        ELSE IndexPanic

\* url.QueryEscape of one character: a space is +, a reserved character is %XX
EscapeChar(c) ==
    CASE c = " " -> <<"+">>
      [] c = "\"" -> <<"%", "2", "2">>
      [] c = "'" -> <<"%", "2", "7">>
      [] c = ":" -> <<"%", "3", "A">>
      [] c = "\\" -> <<"%", "5", "C">>
      [] OTHER -> <<c>>

\* url.QueryEscape
RECURSIVE QueryEscape(_)
QueryEscape(s) == IF s = <<>> THEN <<>> ELSE EscapeChar(Head(s)) \o QueryEscape(Tail(s))

\* a request that was never built: the host or the handler stopped before NewRequest
NotBuilt == [method |-> "none", body |-> NoBody]

\* dataSourceAssetRead's request without the test for a search parameter
dataSourceAssetReadRequestUnvalidated(dd) ==
    NewRequest("GET", "/assets",
               [ search |-> QueryEscape(buildSearchQuery(dd.attrs.name, dd.attrs.display_id,
                                                          dd.attrs.asset_tag)),
                 trashed |-> dd.attrs.trashed ],
               NoBody)

\* the request dataSourceAssetRead builds: none when no search parameter is given, else
\* GET /assets?search=<escaped query>, with &trashed=true when trashed is set
dataSourceAssetReadRequest(dd) ==
    IF dd.attrs.name = <<>> /\ dd.attrs.display_id = 0 /\ dd.attrs.asset_tag = <<>>
    THEN NotBuilt
    ELSE NewRequest("GET", "/assets",
                    [ search |-> QueryEscape(buildSearchQuery(dd.attrs.name, dd.attrs.display_id,
                                                               dd.attrs.asset_tag)),
                      trashed |-> dd.attrs.trashed ],
                    NoBody)

\* the assets a search matches: the query is the conjunction of some of the asset's own
\* name, display ID and tag
Matches(v, q) ==
    { a \in v.assets :
        \E n \in {<<>>, a.name}, i \in {0, a.display_id}, t \in {<<>>, a.asset_tag} :
            /\ <<n, i, t>> # <<<<>>, 0, <<>>>>
            /\ q.search = QueryEscape(buildSearchQuery(n, i, t)) }

\* the vendor's own answers to the search: the matching assets, in some order
HonestSearch(v, req) ==
    IF req.method = "none" THEN {}
    ELSE {<<Answer(200, JsonBody(s)), v>> : s \in Orderings(Matches(v, req.id))}

\* the d.Set calls of dataSourceAssetRead
setDataSourceAssetData(attrs, asset) ==
    [ a \in DOMAIN attrs |->
        IF a \in DataSourceDirectAttrs THEN DirectValue("Asset", a, asset)
        ELSE IF a \in DataSourceNullableAttrs THEN (IF asset[a] # Nil THEN Deref(asset[a]) ELSE attrs[a])
        ELSE attrs[a] ]

\* dataSourceAssetRead without its len(Assets) > 1 test
dataSourceAssetReadFirstMatch(dd, w) ==
    IF DoRequest(w).err \/ ~Decodes(w) THEN Failed(dd)
    ELSE IF Len(w.body.obj) = 0 THEN Failed(dd)
    ELSE Ok(Itoa(w.body.obj[1].display_id), setDataSourceAssetData(dd.attrs, w.body.obj[1]))

\* dataSourceAssetRead, from the response on
dataSourceAssetRead(dd, w) ==
    IF DoRequest(w).err \/ ~Decodes(w) THEN Failed(dd)
    ELSE IF Len(w.body.obj) = 0 THEN Failed(dd)
    ELSE IF Len(w.body.obj) > 1 THEN Failed(dd)
    ELSE Ok(Itoa(w.body.obj[1].display_id), setDataSourceAssetData(dd.attrs, w.body.obj[1]))

\* the request dataSourceAssetTypeRead ends up building: GET /asset_types/<id> when d.GetOk
\* finds an id, else GET /asset_types when it finds a name, else none
dataSourceAssetTypeReadRequest(dd) ==
    IF dd.attrs.id # 0 THEN NewRequest("GET", "/asset_types", Itoa(dd.attrs.id), NoBody)
    ELSE IF dd.attrs.name # <<>> THEN NewRequest("GET", "/asset_types", <<>>, NoBody)
    ELSE NotBuilt

\* the vendor's own answers to the lookup's request: the listing in some order, or the
\* answer of the per-item endpoint
HonestLookup(v, req) ==
    IF req.method = "none" THEN {}
    ELSE IF req.id = <<>> THEN {<<Answer(200, JsonBody(s)), v>> : s \in Orderings(v.assets)}
    ELSE Honest("AssetType", v, req)

\* setAssetTypeDataSourceData
setAssetTypeDataSourceData(attrs, assetType) ==
    [ a \in DOMAIN attrs |->
        IF a = "id" THEN assetType.id
        ELSE IF a = "parent_asset_type_id"
        THEN (IF assetType[a] # Nil THEN Deref(assetType[a]) ELSE attrs[a])
        ELSE DirectValue("AssetType", a, assetType) ]

\* readAssetTypeByID, from the response on
readAssetTypeByID(dd, w) ==
    IF DoRequest(w).err \/ ~Decodes(w) THEN Failed(dd)
    ELSE Ok(Itoa(w.body.obj.id), setAssetTypeDataSourceData(dd.attrs, w.body.obj))

\* readAssetTypeByName with a loop that does not break at the first match
readAssetTypeByNameLastMatch(dd, w, name) ==
    IF DoRequest(w).err \/ ~Decodes(w) THEN Failed(dd)
    ELSE LET found == {i \in 1..Len(w.body.obj) : w.body.obj[i].name = name}
         IN  IF found = {} THEN Failed(dd)
             ELSE LET foundAssetType == w.body.obj[CHOOSE i \in found : \A j \in found : i >= j]
                  IN  Ok(Itoa(foundAssetType.id), setAssetTypeDataSourceData(dd.attrs, foundAssetType))

\* readAssetTypeByName, from the response on
readAssetTypeByName(dd, w, name) ==
    IF DoRequest(w).err \/ ~Decodes(w) THEN Failed(dd)
    ELSE LET found == {i \in 1..Len(w.body.obj) : w.body.obj[i].name = name}
         IN  IF found = {} THEN Failed(dd)
             ELSE LET foundAssetType == w.body.obj[CHOOSE i \in found : \A j \in found : i <= j]
                  IN  Ok(Itoa(foundAssetType.id), setAssetTypeDataSourceData(dd.attrs, foundAssetType))

\* dataSourceAssetTypeRead, from the response on
dataSourceAssetTypeRead(dd, w) ==
    IF dd.attrs.id # 0 THEN readAssetTypeByID(dd, w)
    ELSE IF dd.attrs.name # <<>> THEN readAssetTypeByName(dd, w, dd.attrs.name)
    ELSE Failed(dd)

\* d as the host hands it to a data source's Read: the configuration, no prior state
DataSourceData ==
    [ id |-> <<>>,
      attrs |-> IF kind = DataSourceAsset
                THEN [ a \in DataSourceAttrs |->
                         IF a \in DataSourceOptionalAttrs THEN cfg[a] ELSE DataSourceZeroAttrs[a] ]
                ELSE [ a \in DataSourceAssetTypeAttrs |->
                         IF a \in DOMAIN cfg THEN cfg[a] ELSE DataSourceAssetTypeZeroAttrs[a] ],
      changed |-> {} ]

\* the host's validation of a configuration against dataSourceAsset's schema: a value for an
\* attribute that is not Optional is refused and Read is never called
SchemaRejects(c) == \E a \in DOMAIN c \ DataSourceOptionalAttrs : c[a] # <<>>

SearchExchange(op, dd, req) ==
    \E a \in Answers(req, HonestSearch(vendor, req), Faulty(kind, vendor)) :
        \E r \in (IF a.sent THEN {dataSourceAssetRead(dd, a.wire)} ELSE {Failed(dd)}) :
            Record(op, FALSE, dd, req, a, r)

LookupExchange(dd, req) ==
    \E a \in Answers(req, HonestLookup(vendor, req), Faulty(kind, vendor)) :
        \E r \in (IF a.sent THEN {dataSourceAssetTypeRead(dd, a.wire)} ELSE {Failed(dd)}) :
            Record("Read", FALSE, dd, req, a, r)

\* the host validates the search block and reads the data source
HostReadDataSource ==
    /\ kind = DataSourceAsset
    /\ IF SchemaRejects(cfg)
       THEN SearchExchange("Validate", DataSourceData, NotBuilt)
       ELSE SearchExchange("Read", DataSourceData, dataSourceAssetReadRequest(DataSourceData))

\* the host reads the asset-type data source
HostReadAssetTypeDataSource ==
    /\ kind = DataSourceAssetType
    /\ LookupExchange(DataSourceData, dataSourceAssetTypeReadRequest(DataSourceData))

\* the vendor gains or loses an object between two reads of a data source
VendorRestock ==
    /\ kind \in DataSourceKinds
    /\ \E a \in Stock(kind) :
          vendor' = [vendor EXCEPT !.assets = IF a \in @ THEN @ \ {a} ELSE @ \cup {a}]
    /\ lastOp' = Idle
    /\ UNCHANGED <<kind, cfg, d, createReq, fresh, dispatch, meta, call>>

\* the provider block of the configuration
ProviderBlocks == {[api_key |-> <<"k">>, domain |-> <<"d">>]}

\* configureProvider
configureProvider(block) == NewConfig(block.api_key, block.domain)

\* no helper function has been applied on its own
NoCall == [fn |-> "none", in |-> <<>>, out |-> <<>>]

\* the provider is configured before any handler runs
Configured ==
    /\ \E b \in ProviderBlocks : ~configureProvider(b).err /\ meta = Deref(configureProvider(b).config)
    /\ call = NoCall

InitDataSource ==
    /\ kind \in DataSourceKinds
    /\ cfg \in (IF kind = DataSourceAsset THEN SearchConfigs ELSE LookupConfigs)
    /\ d = [ id |-> <<>>,
             attrs |-> IF kind = DataSourceAsset THEN DataSourceZeroAttrs ELSE DataSourceAssetTypeZeroAttrs ]
    /\ vendor = [assets |-> {}, next |-> 1]
    /\ lastOp = Idle
    /\ createReq = [asset_type_id |-> 0]
    /\ fresh = FALSE
    /\ dispatch = IF kind = DataSourceAsset
                  THEN [type |-> "freshservice_asset", found |-> "freshservice_asset" \in DataSourcesMap]
                  ELSE [type |-> "freshservice_asset_type", found |-> "freshservice_asset_type" \in DataSourcesMap]
    /\ Configured

InitResource ==
    /\ kind \in Kinds
    /\ cfg \in Configs(kind)
    /\ d = [id |-> <<>>, attrs |-> ZeroAttrs(kind)]
    /\ vendor = [assets |-> {}, next |-> 1]
    /\ lastOp = Idle
    /\ createReq = [asset_type_id |-> 0]
    /\ fresh = FALSE
    /\ dispatch = Resolve(TypeName(kind))
    /\ Configured

Init == InitResource \/ InitDataSource

Next ==
    \/ HostCreate
    \/ HostRead
    \/ HostUpdate
    \/ HostDelete
    \/ HostRetryDelete
    \/ ChangeConfig
    \/ VendorDrop
    \/ VendorNullify
    \/ VendorClearField
    \/ VendorRetypeField
    \/ HostReadDataSource
    \/ HostReadAssetTypeDataSource
    \/ VendorRestock

Spec == Init /\ [][Next]_vars

-----------------------------------------------------------------------------
(* The helper functions applied on their own, over bounded inputs: each   *)
(* behaviour applies one helper once                                       *)

\* strings of the helper inputs are at most MaxLen characters long
MaxLen == 2

\* the strings over an alphabet, up to n characters
Strings(alphabet, n) == UNION {[1..k -> alphabet] : k \in 0..n}

\* values a search criterion may hold: letters, single and double quotes, backslashes
CriterionValues == Strings({"a", "'", "\"", "\\"}, MaxLen)

\* strings a type_fields value may hold: the documented examples and every short string of
\* digits, sign, point, exponent and letters that begin a boolean
TypeFieldValues ==
    { <<"4", "2">>, <<"3", ".", "1", "4">>, <<"t", "r", "u", "e">>, <<"f", "a", "l", "s", "e">>,
      <<"h", "e", "l", "l", "o">>, <<"0", "0", "7">>, <<"1", "e", "3">>, <<"T", "R", "U", "E">> }
        \cup Strings({"1", "0", ".", "-", "e", "t", "F"}, MaxLen)

\* logical type_fields keys, some of them ending like a suffix
FieldNames == Strings({"a", "_", "5"}, MaxLen + 1)

\* asset-type IDs of the codec's inputs
CodecTypeIDs == {5, 6, 55}

\* domains a provider block may hold: with and without a dot, with and without the vendor's suffix
Domains == Strings({"d", "."}, MaxLen) \cup {s \o Str_freshservice : s \in Strings({"d", "."}, MaxLen)}

\* statuses the wire may answer with
Statuses == {100, 200, 201, 204, 301, 304, 399, 400, 401, 403, 404, 405, 429, 499, 500, 503}

\* the variables a helper's application leaves alone
handlerVars == <<kind, cfg, d, vendor, lastOp, createReq, fresh, dispatch, meta>>

\* buildSearchQuery as dataSourceAssetRead calls it: with at least one criterion present
CallBuildSearchQuery ==
    /\ call = NoCall
    /\ \E name \in CriterionValues, displayID \in {0, 5, 12}, assetTag \in CriterionValues :
           /\ ~(name = <<>> /\ displayID = 0 /\ assetTag = <<>>)
           /\ call' = [ fn |-> "buildSearchQuery", in |-> <<name, displayID, assetTag>>,
                        out |-> buildSearchQuery(name, displayID, assetTag) ]
           /\ UNCHANGED handlerVars

CallConvertTypeFieldValue ==
    /\ call = NoCall
    /\ \E value \in TypeFieldValues :
           /\ call' = [fn |-> "convertTypeFieldValue", in |-> <<value>>, out |-> convertTypeFieldValue(value)]
           /\ UNCHANGED handlerVars

\* one type_fields entry written by resourceAssetCreate under asset type id, then read back
\* by setAssetData from a response whose asset_type_id is readID
CallFieldCodec ==
    /\ call = NoCall
    /\ \E key \in FieldNames, id \in CodecTypeIDs, readID \in CodecTypeIDs :
           /\ call' = [ fn |-> "codec", in |-> <<key, id, readID>>,
                        out |-> LET sent == AssetTypeFields([ type_fields |-> [k \in {key} |-> <<"v">>],
                                                              asset_type_id |-> id ])
                                IN  [ sent |-> DOMAIN sent,
                                      read |-> {DOMAIN m : m \in StrippedTypeFields(sent, readID)} ] ]
           /\ UNCHANGED handlerVars

\* one type_fields entry of a response, under any key, read by setAssetData
CallStrip ==
    /\ call = NoCall
    /\ \E key \in FieldNames, readID \in CodecTypeIDs :
           /\ call' = [ fn |-> "strip", in |-> <<key, readID>>,
                        out |-> {DOMAIN m : m \in StrippedTypeFields([k \in {key} |-> JStr(<<"v">>)], readID)} ]
           /\ UNCHANGED handlerVars

\* setAssetData's loop over a response's type_fields that hold two keys
CallStripResponse ==
    /\ call = NoCall
    /\ \E key1 \in FieldNames, key2 \in FieldNames, readID \in CodecTypeIDs :
           /\ key1 # key2
           /\ call' = [ fn |-> "stripResponse", in |-> <<{key1, key2}, readID>>,
                        out |-> StrippedTypeFields(key1 :> JStr(<<"v">>) @@ key2 :> JStr(<<"w">>), readID) ]
           /\ UNCHANGED handlerVars

CallNewConfig ==
    /\ call = NoCall
    /\ \E apiKey \in {<<>>, <<"k">>}, domain \in Domains :
           /\ call' = [fn |-> "NewConfig", in |-> <<apiKey, domain>>, out |-> NewConfig(apiKey, domain)]
           /\ UNCHANGED handlerVars

CallDoRequest ==
    /\ call = NoCall
    /\ \E w \in {TransportFailure} \cup {Answer(s, b) : s \in Statuses, b \in {Undecodable, JsonBody(ZeroAsset)}} :
           /\ call' = [fn |-> "DoRequest", in |-> <<w>>, out |-> DoRequest(w)]
           /\ UNCHANGED handlerVars

HelperInit ==
    /\ kind = "Helpers"
    /\ cfg = EmptyMap
    /\ d = [id |-> <<>>, attrs |-> EmptyMap]
    /\ vendor = [assets |-> {}, next |-> 1]
    /\ lastOp = Idle
    /\ createReq = [asset_type_id |-> 0]
    /\ fresh = FALSE
    /\ dispatch = [type |-> "", found |-> FALSE]
    /\ Configured

HelperNext ==
    \/ CallBuildSearchQuery
    \/ CallConvertTypeFieldValue
    \/ CallFieldCodec
    \/ CallStrip
    \/ CallStripResponse
    \/ CallNewConfig
    \/ CallDoRequest

HelperSpec == HelperInit /\ [][HelperNext]_vars

-----------------------------------------------------------------------------
(* Properties *)

\* the last step invoked a resource handler for op
Invoked(op) == kind \in Kinds /\ lastOp.op = op

\* the request of the last invocation was answered with an HTTP status
Answered == lastOp.sent /\ ~lastOp.wire.err

\* the object the last answer's body decoded to
Decoded == lastOp.wire.body.obj

\* C1: for every resource kind, a Read whose GET is answered 404 clears the identifier,
\* writes no attribute and returns without error, whatever the 404's body holds
C1_Read404ClearsId ==
    [][ (kind \in Kinds /\ lastOp'.op = "Read" /\ lastOp'.sent /\ ~lastOp'.wire.err
            /\ lastOp'.wire.status = 404)
        => (d'.id = <<>> /\ d'.attrs = d.attrs /\ lastOp'.diag = "ok") ]_vars

\* C2: for every resource kind, a Delete answered 404 succeeds and leaves the identifier
\* empty, so a Delete and its repetition on the same identifier both succeed
C2_Delete404Succeeds ==
    /\ (Invoked("Delete") /\ Answered /\ lastOp.wire.status = 404)
          => (lastOp.diag = "ok" /\ d.id = <<>>)
    /\ (Invoked("Delete") /\ lastOp.retry /\ lastOp.honest)
          => (lastOp.diag = "ok" /\ d.id = <<>>)

\* a repeated Delete, after a first one that removed the object, was answered 404 and succeeded
C2_Witness ==
    /\ Invoked("Delete") /\ lastOp.retry /\ lastOp.honest
    /\ Answered /\ lastOp.wire.status = 404
    /\ lastOp.preId # <<>> /\ d.id = <<>> /\ lastOp.diag = "ok"

\* C3: for every resource kind, a Delete answered with a status that is neither 2xx nor 404
\* reports a failure and leaves the identifier unchanged; the identifier is cleared only on
\* success
C3_DeleteNon2xxFails ==
    /\ (Invoked("Delete") /\ Answered /\ lastOp.wire.status \notin 200..299 /\ lastOp.wire.status # 404)
          => (lastOp.diag = "error" /\ d.id = lastOp.preId)
    /\ (Invoked("Delete") /\ lastOp.preId # <<>> /\ d.id = <<>>) => lastOp.diag = "ok"

\* C4: for each asset kind, a successful Create sets the identifier to the decimal string of
\* the response's display_id, not of its internal id
C4_CreateIdIsDisplayId ==
    (kind \in AssetKinds /\ lastOp.op = "Create" /\ lastOp.diag = "ok")
        => d.id = Itoa(Decoded.display_id)

\* C5: for the generic Asset and the AWS account, after a successful Create, Read or Update
\* that leaves a non-empty identifier, the identifier is the decimal string of display_id
C5_IdMatchesDisplayId ==
    (kind \in {"Asset", "AWSAccount"} /\ lastOp.op \in {"Create", "Read", "Update"}
        /\ lastOp.diag = "ok" /\ d.id # <<>>)
        => d.id = Itoa(d.attrs.display_id)

\* C6: for all four asset kinds, against a vendor that stores and echoes what it was sent, a
\* Read after Create leaves every configurable attribute equal to its configured value
C6_RoundTrip ==
    (kind \in AssetKinds /\ lastOp.op = "Read" /\ lastOp.diag = "ok" /\ fresh)
        => \A a \in ConfigAttrs(kind) : d.attrs[a] = cfg[a]

\* the attributes a kind's Read manages
ManagedAttrs(k) ==
    IF k \in {"Asset", "AssetType"} THEN SchemaAttrs(k)
    ELSE CloudDirectAttrs(k) \cup {f[1] : f \in ReadFields(k)}

\* the text a response carries for a cloud kind's attribute: the type_fields entry under
\* name_<asset_type_id>, empty when the entry is missing
CarriedField(k, a, obj) ==
    LET key == FieldKey(LogicalKey(k, a), obj.asset_type_id)
    IN  IF obj.type_fields # Nil /\ key \in DOMAIN Deref(obj.type_fields)
        THEN SprintV(Deref(obj.type_fields)[key])
        ELSE <<>>

\* v is the value the response object carries for attribute a (null and absent carry the
\* zero value)
Carries(k, a, v, obj) ==
    IF a = "type_fields"
    THEN IF obj.type_fields = Nil THEN v = EmptyMap
         ELSE v \in StrippedTypeFields(Deref(obj.type_fields), obj.asset_type_id)
    ELSE IF a \in AssetNullableAttrs \cup {"parent_asset_type_id"}
    THEN v = (IF obj[a] = Nil THEN ZeroOf(a) ELSE Deref(obj[a]))
    ELSE IF k \in AssetKinds \ {"Asset"} /\ a \in {f[1] : f \in ReadFields(k)}
    THEN v = CarriedField(k, a, obj)
    ELSE v = DirectValue(k, a, obj)

\* C7: after a successful Read of any kind, every attribute the handler manages equals the
\* value the vendor's response carries, null and missing values and non-string type_fields
\* entries included
C7_ReadReflectsResponse ==
    (Invoked("Read") /\ lastOp.diag = "ok" /\ Answered /\ lastOp.wire.status = 200)
        => \A a \in ManagedAttrs(kind) : Carries(kind, a, d.attrs[a], Decoded)

\* C8: for every asset kind, a changed asset_type_id never yields an in-place Update, and no
\* Update request carries a type_fields key whose suffix is not the asset-type ID of Create
C8_AssetTypeImmutable ==
    [][ (kind \in AssetKinds /\ lastOp'.op = "Update")
        => /\ "asset_type_id" \notin Changed(kind)
           /\ \A key \in lastOp'.typeKeys :
                 HasSuffix(key, <<"_">> \o Itoa(createReq.asset_type_id)) ]_vars

\* C9: every resource type the README and the docs present is in the provider's resource
\* map, so the host finds the handlers of each kind
C9_DocumentedResourcesRegistered ==
    kind \in Kinds => (dispatch.type \in DocumentedResources /\ dispatch.found)

\* C10: the asset search data source succeeds exactly when the response lists one asset, and
\* then sets the identifier to that asset's display ID; with none or several it fails and
\* sets no identifier
C10_SearchNeedsOneMatch ==
    (kind = DataSourceAsset /\ lastOp.op = "Read" /\ Answered /\ lastOp.wire.status = 200)
        => IF Len(Decoded) = 1
           THEN lastOp.diag = "ok" /\ d.id = Itoa(Decoded[1].display_id)
           ELSE lastOp.diag = "error" /\ d.id = <<>>

\* a search matched one asset, whose display ID (and not its internal id) became the identifier
C10_Witness ==
    /\ kind = DataSourceAsset /\ lastOp.op = "Read" /\ Answered /\ lastOp.wire.status = 200
    /\ Len(Decoded) = 1 /\ Decoded[1].id # Decoded[1].display_id
    /\ lastOp.diag = "ok" /\ d.id = Itoa(Decoded[1].display_id)

\* the last step read a data source of kind k (the handler ran, or the host refused the block)
Looked(k) == kind = k /\ lastOp.op = "Read"

IsInfix(sub, s) == \E i \in 0..(Len(s) - Len(sub)) : SubSeq(s, i + 1, i + Len(sub)) = sub

\* C12: a lookup of the asset data source that supplies only item_id is accepted, issues a
\* search request, and the query of that request filters on the item_id given
C12_ItemIdIsCriterion ==
    (kind = DataSourceAsset /\ lastOp.op \in {"Read", "Validate"}
        /\ cfg.item_id # <<>> /\ cfg.name = <<>> /\ cfg.display_id = 0 /\ cfg.asset_tag = <<>>)
        => /\ lastOp.sent
           /\ IsInfix(cfg.item_id, lastOp.req.id.search)

\* a value with a backslash put before each single quote, built from its last character back
RECURSIVE BackslashQuoted(_)
BackslashQuoted(v) ==
    IF v = <<>> THEN <<>>
    ELSE BackslashQuoted(SubSeq(v, 1, Len(v) - 1))
            \o (IF v[Len(v)] = "'" THEN <<"\\", "'">> ELSE <<v[Len(v)]>>)

\* the text of one criterion as the search syntax writes it
NameCriterion(name) == <<"n", "a", "m", "e", ":", "'">> \o BackslashQuoted(name) \o <<"'">>

DisplayIdCriterion(displayID) == <<"d", "i", "s", "p", "l", "a", "y", "_", "i", "d", ":">> \o Itoa(displayID)

AssetTagCriterion(assetTag) ==
    <<"a", "s", "s", "e", "t", "_", "t", "a", "g", ":", "'">> \o BackslashQuoted(assetTag) \o <<"'">>

\* C13: buildSearchQuery yields one double-quoted string that holds the criteria present, in
\* the order name, display_id, asset_tag, joined by " AND "; name and asset_tag are written
\* key:'value' with a backslash before each single quote, display_id as a bare number; an
\* empty string or 0 contributes nothing
C13_SearchQueryForm ==
    call.fn = "buildSearchQuery"
        => LET name == call.in[1]
               displayID == call.in[2]
               assetTag == call.in[3]
               and == <<" ", "A", "N", "D", " ">>
               n == NameCriterion(name)
               i == DisplayIdCriterion(displayID)
               t == AssetTagCriterion(assetTag)
               inner ==
                   CASE name # <<>> /\ displayID # 0 /\ assetTag # <<>> -> n \o and \o i \o and \o t
                     [] name # <<>> /\ displayID # 0 /\ assetTag = <<>> -> n \o and \o i
                     [] name # <<>> /\ displayID = 0 /\ assetTag # <<>> -> n \o and \o t
                     [] name = <<>> /\ displayID # 0 /\ assetTag # <<>> -> i \o and \o t
                     [] name # <<>> /\ displayID = 0 /\ assetTag = <<>> -> n
                     [] name = <<>> /\ displayID # 0 /\ assetTag = <<>> -> i
                     [] OTHER -> t
           IN  call.out = <<"\"">> \o inner \o <<"\"">>

\* a query of all three criteria was built, the name holding a single quote
C13_Witness ==
    /\ call.fn = "buildSearchQuery"
    /\ Contains(call.in[1], "'") /\ call.in[2] # 0 /\ call.in[3] # <<>>
    /\ IsInfix(<<"\\", "'">>, call.out)
    /\ IsInfix(<<" ", "A", "N", "D", " ", "d", "i", "s", "p", "l", "a", "y", "_", "i", "d", ":">>, call.out)

\* C14: the asset-type lookup fetches /asset_types/<id> when an id is given, with or without
\* a name; else, when a name is given, it fetches the listing and returns the first entry in
\* listing order whose name is exactly the name given, or an error when there is none; with
\* neither it returns an error and issues no request
C14_LookupByIdThenName ==
    Looked(DataSourceAssetType)
        => IF cfg.id # 0
           THEN /\ lastOp.sent /\ lastOp.req.method = "GET"
                /\ lastOp.req.coll = "/asset_types" /\ lastOp.req.id = Itoa(cfg.id)
           ELSE IF cfg.name # <<>>
           THEN /\ lastOp.sent /\ lastOp.req.method = "GET"
                /\ lastOp.req.coll = "/asset_types" /\ lastOp.req.id = <<>>
                /\ (Answered /\ lastOp.wire.status = 200)
                      => LET named == {i \in 1..Len(Decoded) : Decoded[i].name = cfg.name}
                         IN  IF named = {}
                             THEN lastOp.diag = "error" /\ d.id = <<>>
                             ELSE \E i \in named :
                                     /\ \A j \in named : i <= j
                                     /\ lastOp.diag = "ok"
                                     /\ d.id = Itoa(Decoded[i].id)
                                     /\ d.attrs.id = Decoded[i].id
                                     /\ d.attrs.name = cfg.name
           ELSE ~lastOp.sent /\ lastOp.diag = "error" /\ d.id = <<>>

\* a lookup by name found the name twice in the listing and returned the entry listed first,
\* which is not the one with the smaller id
C14_Witness ==
    /\ Looked(DataSourceAssetType) /\ cfg.id = 0 /\ cfg.name # <<>>
    /\ Answered /\ lastOp.wire.status = 200 /\ lastOp.diag = "ok"
    /\ \E i, j \in 1..Len(Decoded) :
          /\ i < j /\ Decoded[i].name = cfg.name /\ Decoded[j].name = cfg.name
          /\ Decoded[i].id > Decoded[j].id
          /\ d.id = Itoa(Decoded[i].id)

\* C15: the asset-type data source returns an error when no asset type is found: a lookup by
\* id answered 404 fails and sets no identifier, and so does a lookup by name that the
\* listing does not hold
C15_LookupMissFails ==
    /\ (Looked(DataSourceAssetType) /\ cfg.id # 0 /\ Answered /\ lastOp.wire.status = 404)
          => (lastOp.diag = "error" /\ d.id = <<>>)
    /\ (Looked(DataSourceAssetType) /\ cfg.id = 0 /\ Answered /\ lastOp.wire.status = 200
          /\ \A i \in 1..Len(Decoded) : Decoded[i].name # cfg.name)
          => (lastOp.diag = "error" /\ d.id = <<>>)

\* C16: convertTypeFieldValue yields the integer when the string parses as a base-10 integer,
\* else the float when it parses as a float, else the boolean when it parses as a boolean,
\* else the string itself; so "1" and "0" become numbers, and the documented examples
\* "42", "3.14", "true" and "hello" become 42, 3.14, true and "hello"
C16_CoercionOrder ==
    call.fn = "convertTypeFieldValue"
        => LET value == call.in[1]
           IN  /\ AtoiOk(value) => call.out = Normalize(AtoiVal(value), 0)
               /\ (~AtoiOk(value) /\ ParseFloatOk(value))
                     => (call.out.t \in {"num", "nonfinite"} /\ call.out = ParseFloatVal(value))
               /\ (~AtoiOk(value) /\ ~ParseFloatOk(value) /\ ParseBoolOk(value))
                     => call.out = JBool(value \in BoolTrueStrings)
               /\ (~AtoiOk(value) /\ ~ParseFloatOk(value) /\ ~ParseBoolOk(value))
                     => call.out = JStr(value)
               /\ value \in {<<"1">>, <<"0">>} => call.out.t = "num"
               /\ value = <<"4", "2">> => call.out = JNum(42, 0)
               /\ value = <<"3", ".", "1", "4">> => call.out = JNum(314, -2)
               /\ value = <<"t", "r", "u", "e">> => call.out = JBool(TRUE)
               /\ value = <<"h", "e", "l", "l", "o">> => call.out = JStr(value)

\* "1", which parses as an integer and as a boolean, became the number 1
C16_Witness ==
    call.fn = "convertTypeFieldValue" /\ call.in[1] = <<"1">> /\ call.out = JNum(1, 0)

\* C17: the generic Asset's codec writes each logical key k as k_<asset_type_id>; reading
\* removes exactly one trailing _<asset_type_id> from a key that ends in it and leaves any
\* other key as it is; so a key written under an id and read under the same id is k again
C17_FieldSuffixCodec ==
    /\ call.fn = "codec"
          => /\ call.out.sent = {call.in[1] \o <<"_">> \o Itoa(call.in[2])}
             /\ call.in[3] = call.in[2] => call.out.read = {{call.in[1]}}
    /\ call.fn = "strip"
          => LET key == call.in[1]
                 suffix == <<"_">> \o Itoa(call.in[2])
                 cut == Len(key) - Len(suffix)
             IN  IF cut >= 0 /\ SubSeq(key, cut + 1, Len(key)) = suffix
                 THEN call.out = {{SubSeq(key, 1, cut)}}
                 ELSE call.out = {{key}}

\* a logical key that itself ends in _5 was written under asset type 5 and read back whole
C17_Witness ==
    /\ call.fn = "codec"
    /\ call.in = <<(<<"a", "_", "5">>), 5, 5>>
    /\ call.out.sent = {<<"a", "_", "5", "_", "5">>}
    /\ call.out.read = {{<<"a", "_", "5">>}}

\* C18: NewConfig fails on an empty api_key or an empty domain; otherwise the domain gains
\* ".freshservice.com" exactly when it holds no dot, the base URL is
\* https://<domain>/api/v2, and normalising the normalised domain changes nothing
C18_DomainNormalised ==
    call.fn = "NewConfig"
        => LET apiKey == call.in[1]
               domain == call.in[2]
           IN  IF apiKey = <<>> \/ domain = <<>>
               THEN call.out.err /\ call.out.config = Nil
               ELSE /\ ~call.out.err /\ call.out.config # Nil
                    /\ LET c == Deref(call.out.config)
                       IN  /\ c.APIKey = apiKey
                           /\ c.Domain = IF \E i \in 1..Len(domain) : domain[i] = "."
                                         THEN domain
                                         ELSE domain \o <<".", "f", "r", "e", "s", "h", "s", "e", "r",
                                                          "v", "i", "c", "e", ".", "c", "o", "m">>
                           /\ c.BaseURL = <<"h", "t", "t", "p", "s", ":", "/", "/">> \o c.Domain
                                              \o <<"/", "a", "p", "i", "/", "v", "2">>
                           /\ NewConfig(apiKey, c.Domain) = call.out

\* a domain with a dot and without the vendor's suffix was left as given
C18_Witness ==
    /\ call.fn = "NewConfig" /\ call.in = <<(<<"k">>), (<<"d", ".">>)>>
    /\ ~call.out.err /\ Deref(call.out.config).Domain = <<"d", ".">>

\* C19: every request a resource or data-source handler issues comes from NewRequest: it
\* targets the configured base URL and carries Basic authentication with the API key as
\* user and "X" as password, and the JSON Content-Type and Accept headers
C19_RequestsAuthenticated ==
    (kind \in Kinds \cup DataSourceKinds /\ lastOp.sent)
        => /\ lastOp.req.base = meta.BaseURL
           /\ lastOp.req.user = meta.APIKey /\ lastOp.req.user # <<>>
           /\ lastOp.req.pass = "X"
           /\ lastOp.req.header.ContentType = "application/json"
           /\ lastOp.req.header.Accept = "application/json"

\* an Update's PUT went out with the API key and "X"
C19_Witness ==
    /\ Invoked("Update") /\ lastOp.sent /\ lastOp.req.method = "PUT"
    /\ lastOp.req.user = <<"k">> /\ lastOp.req.pass = "X"

\* C20: DoRequest returns an error and no response on a transport failure; the response and
\* no error on 404; an error that embeds the status code and no response on any other status
\* of 400 or more; the response and no error on any status below 400; it never returns a
\* response together with an error
C20_DoRequestCases ==
    call.fn = "DoRequest"
        => LET w == call.in[1]
               r == call.out
           IN  /\ w.err => (r.err /\ r.resp = Nil)
               /\ (~w.err /\ w.status = 404) => (~r.err /\ r.resp = {w})
               /\ (~w.err /\ w.status >= 400 /\ w.status # 404)
                     => (r.err /\ r.resp = Nil /\ IsInfix(Itoa(w.status), r.text))
               /\ (~w.err /\ w.status < 400) => (~r.err /\ r.resp = {w})
               /\ ~(r.resp # Nil /\ r.err)

\* a 500 came back as an error naming 500, without the response
C20_Witness ==
    /\ call.fn = "DoRequest" /\ ~call.in[1].err /\ call.in[1].status = 500
    /\ call.out.err /\ call.out.resp = Nil /\ IsInfix(<<"5", "0", "0">>, call.out.text)

-----------------------------------------------------------------------------
(* The request bodies of Update, the failure paths and the search query's quoting *)

\* the attribute a top-level field of an Update body is built from
BodyAttr(k, f) == IF f = "name" /\ k \in AssetKinds THEN NameAttr(k) ELSE f

\* the attributes of a cloud kind that are sent inside type_fields
TypeFieldAttrs(k) == {f[1] : f \in WriteFields(k)}

\* the last step was an Update of kind k whose request was built
Updated(k) == kind = k /\ lastOp.op = "Update" /\ lastOp.req.method = "PUT"

\* C21: the Update of an Azure subscription, a GCP project and an asset type builds a body
\* that carries only what the host reports as changed: every top-level field other than
\* type_fields belongs to a changed attribute, and type_fields has no more keys than there
\* are changed type-field attributes
C21_UpdateBodyOnlyChanged ==
    \A k \in {"AzureSubscription", "GCPProject", "AssetType"} :
        Updated(k) =>
            /\ \A f \in DOMAIN lastOp.body \ {"type_fields"} : BodyAttr(k, f) \in lastOp.changed
            /\ Cardinality(lastOp.typeKeys) <= Cardinality(TypeFieldAttrs(k) \cap lastOp.changed)

\* the value the last request's type_fields hold under an attribute's key
SentField(k, a) == Deref(lastOp.body.type_fields)[FieldKey(LogicalKey(k, a), cfg.asset_type_id)]

\* C22: whichever attributes changed, the PUT body of the AWS account's Update carries
\* name, asset_type_id, description and all five type fields with their current values,
\* a field whose value was changed to empty included
C22_AWSUpdateSendsAll ==
    Updated("AWSAccount") =>
        /\ {"name", "asset_type_id", "description", "type_fields"} \subseteq DOMAIN lastOp.body
        /\ lastOp.body.name = cfg.account_name
        /\ lastOp.body.asset_type_id = cfg.asset_type_id
        /\ lastOp.body.description = cfg.description
        /\ \A a \in TypeFieldAttrs("AWSAccount") :
              /\ FieldKey(LogicalKey("AWSAccount", a), cfg.asset_type_id) \in lastOp.typeKeys
              /\ a # "account_id" => SentField("AWSAccount", a) = JStr(cfg[a])

\* the last step was a handler invocation, of a resource or of a data source
Handled == lastOp.op \in {"Create", "Read", "Update", "Delete", "Validate"}

C24_FailureWritesNothing == (Handled /\ lastOp.diag = "error") => ~lastOp.wrote

\* an AWS account's Create answered below 400 with a body that does not decode: the
\* handler fails and has set no identifier
C24_Witness ==
    /\ Handled /\ lastOp.diag = "error" /\ lastOp.sent /\ ~lastOp.wrote
    /\ kind = "AWSAccount" /\ lastOp.op = "Create"
    /\ ~lastOp.wire.err /\ lastOp.wire.status < 400 /\ ~lastOp.wire.body.ok

\* C25: a Create or an Update whose POST or PUT is answered 404 reports a failure and
\* writes neither the identifier nor an attribute, whatever the 404's body holds
C25_Write404Fails ==
    (kind \in Kinds /\ lastOp.op \in {"Create", "Update"} /\ Answered /\ lastOp.wire.status = 404)
        => (lastOp.diag = "error" /\ ~lastOp.wrote)

\* C26: the AWS account's Create and Update transmit the configured account_id without
\* loss: the value sent under account_id_<asset_type_id>, rendered as text, is the
\* configured string
C26_AccountIdLossless ==
    (kind = "AWSAccount" /\ lastOp.op \in {"Create", "Update"} /\ lastOp.req.method # "none"
        /\ cfg.account_id # <<>>)
        => /\ FieldKey(LogicalKey("AWSAccount", "account_id"), cfg.asset_type_id) \in lastOp.typeKeys
           /\ SprintV(SentField("AWSAccount", "account_id")) = cfg.account_id

\* C27: the asset type's Update transmits every change: each of name, description,
\* parent_asset_type_id and visible that the host reports as changed is in the PUT body
\* with its new value, an emptied description, a visible set to false and a removed
\* parent included
C27_AssetTypeUpdateSendsChanges ==
    Updated("AssetType") =>
        \A a \in lastOp.changed :
            a \in DOMAIN lastOp.body /\ lastOp.body[a] = cfg[a]

\* C28: on read, setAssetData maps the keys of a response's type_fields to logical keys
\* injectively: two distinct keys never land on one logical key, so the map it writes is
\* determined by the response alone
C28_StripInjective ==
    call.fn = "stripResponse" =>
        /\ Cardinality(call.out) = 1
        /\ \A m \in call.out : Cardinality(DOMAIN m) = Cardinality(call.in[1])

\* C29: whatever strings type_fields hold, the generic Asset's Create and Update build
\* a body the encoder accepts: they never fail at marshalling and always reach the HTTP call
C29_AssetBodyMarshals ==
    (kind = "Asset" /\ lastOp.op \in {"Create", "Update"})
        => (lastOp.req.method # "none" /\ lastOp.sent)

\* the number of backslashes that stand immediately before position i of s
RECURSIVE BackslashesBefore(_, _)
BackslashesBefore(s, i) ==
    IF i > 1 /\ s[i - 1] = "\\" THEN 1 + BackslashesBefore(s, i - 1) ELSE 0

\* the positions of s that hold the character c and are not escaped by a backslash
Unescaped(s, c) == {i \in 1..Len(s) : s[i] = c /\ BackslashesBefore(s, i) % 2 = 0}

\* the positions of the single quotes buildSearchQuery itself put into the query: those
\* around the name, which is the first part, and around the asset_tag, which is the last
AppendedQuotes(q, name, assetTag) ==
    (IF name # <<>>
     THEN {Len(Str_name) + 2, Len(Str_name) + 3 + Len(escapeSearchValue(name))} ELSE {})
    \cup (IF assetTag # <<>>
          THEN {Len(q) - 2 - Len(escapeSearchValue(assetTag)), Len(q) - 1} ELSE {})

\* C30: read with the backslash as the escape character, the query of buildSearchQuery
\* keeps every value inside its quoting: the only single quotes that open or close a
\* literal are the ones buildSearchQuery appended, and the only double quotes that are
\* not escaped are the first and the last character of the query
C30_SearchValueStaysQuoted ==
    call.fn = "buildSearchQuery"
        => /\ Unescaped(call.out, "'") = AppendedQuotes(call.out, call.in[1], call.in[3])
           /\ Unescaped(call.out, "\"") = {1, Len(call.out)}

=============================================================================
